---- MODULE Spec2Model ----
(***************************************************************************)
(* Model of the states-of-matter-basics molecular dynamics engine:         *)
(* MoleculeForceAndMotionDataSet, AbstractVerletAlgorithm and              *)
(* MultipleParticleModel.                                                  *)
(*                                                                         *)
(* Numbers.  The program computes in IEEE doubles.  Quantities that the    *)
(* code divides are kept as exact fractions [num, den]; as in JavaScript a *)
(* division by zero yields NaN (0/0, kept as [0, 0]) or Infinity (x/0).    *)
(* An array slot holds <<>> while undefined, <<x, y>> for a Vector2 and    *)
(* <<x>> for a number.                                                     *)
(*                                                                         *)
(* Unresolved names.  The sources are a port in progress from Java and     *)
(* use a few names they do not define.  They are read the way the rest of  *)
(* the code uses them: System.arraycopy(src, sp, dst, dp, len) copies a    *)
(* block, moleculeDataSet.numberOfMolecules is getNumberOfMolecules() and  *)
(* getAtomsPerMolecule() is the atomsPerMolecule field.                    *)
(***************************************************************************)
EXTENDS Integers, Sequences, FiniteSets, TLC

\* ------------------------------------------------------------------------
\* Bounds of the model
\* ------------------------------------------------------------------------

\* StatesOfMatterConstants.MAX_NUM_ATOMS, scaled down.
MAX_NUM_ATOMS == 3

\* How many atoms beyond MAX_NUM_ATOMS the model lets numberOfAtoms grow
\* before addMolecule is no longer called.
MaxOverflow == 2

\* How many molecules the dataset is given where the sub-steps of step() run
\* on it.
MaxStepMolecules == 2

\* ------------------------------------------------------------------------
\* Values
\* ------------------------------------------------------------------------

\* undefined, as the content of an array slot.
Undef == <<>>

AtomsPerMoleculeValues == {1, 2, 3}

\* Largest molecule count the bounded model can hold.
MaxMolecules == MAX_NUM_ATOMS + MaxOverflow

\* Indices of the JavaScript arrays.  A write at index -1 (or -atomsPerMolecule
\* .. -1 for atoms) creates a property of that name, so those are modelled too.
MolIdx == (0 - 1) .. MaxMolecules
AtomIdx == (0 - 3) .. (3 * MaxMolecules + 2)

\* Values handed to addMolecule: [com, velocity, rotation rate].  Two molecules
\* made from the same input lie on top of each other, two made from different
\* inputs are farther apart than SAFE_INTER_MOLECULE_DISTANCE.
MoleculeInputs ==
    { [com |-> <<0, 0>>, vel |-> <<0, 0>>, rate |-> <<0>>],
      [com |-> <<3, 0>>, vel |-> <<1, 0>>, rate |-> <<1>>] }

\* atomPositions argument of addMolecule: atom j of a molecule centred at com.
AtomPositionsFor(com, apm) == [j \in 0 .. (apm - 1) |-> <<com[1] + j, com[2]>>]

\* Fractions.
Frac(n, d) == [num |-> n, den |-> d]

NaN == Frac(0, 0)

\* JavaScript a / b for integers a, b: 0/0 is NaN and x/0 is infinite.
Divide(a, b) == IF b = 0 /\ a = 0 THEN NaN ELSE Frac(a, b)

IsNaN(q) == q.den = 0 /\ q.num = 0

IsFinite(q) == q.den # 0

\* q === 0
FracIsZero(q) == IsFinite(q) /\ q.num = 0

\* p === q (never true of NaN)
FracEq(p, q) ==
    /\ ~IsNaN(p) /\ ~IsNaN(q)
    /\ IF IsFinite(p) /\ IsFinite(q) THEN p.num * q.den = q.num * p.den
       ELSE ~IsFinite(p) /\ ~IsFinite(q) /\ (p.num > 0) = (q.num > 0)

\* ------------------------------------------------------------------------
\* MoleculeForceAndMotionDataSet
\* ------------------------------------------------------------------------

\* moleculeMass set by the constructor: 1, 2 or 1.5.
moleculeMass(apm) ==
    IF apm = 1 THEN Frac(1, 1) ELSE IF apm = 2 THEN Frac(2, 1) ELSE Frac(3, 2)

\* moleculeRotationalInertia set by the constructor.  It is left unset (and
\* unused) for one atom; for two atoms it is DIATOMIC_PARTICLE_DISTANCE^2 / 2 (0.9^2 / 2)
\* and for three the inertia of the water structure.  Only their being
\* positive matters below.
moleculeRotationalInertia(apm) ==
    IF apm = 1 THEN NaN ELSE IF apm = 2 THEN Frac(81, 200) ELSE Frac(1, 1)

\* The constructor: counts at zero and every array empty.
MoleculeForceAndMotionDataSet(apm) ==
    [ atomsPerMolecule |-> apm,
      numberOfAtoms |-> 0,
      numberOfSafeMolecules |-> 0,
      atomPositions |-> [i \in AtomIdx |-> Undef],
      moleculeCenterOfMassPositions |-> [i \in MolIdx |-> Undef],
      moleculeVelocities |-> [i \in MolIdx |-> Undef],
      moleculeForces |-> [i \in MolIdx |-> Undef],
      nextMoleculeForces |-> [i \in MolIdx |-> Undef],
      moleculeRotationAngles |-> [i \in MolIdx |-> Undef],
      moleculeRotationRates |-> [i \in MolIdx |-> Undef],
      moleculeTorques |-> [i \in MolIdx |-> Undef],
      nextMoleculeTorques |-> [i \in MolIdx |-> Undef] ]

\* numberOfAtoms / atomsPerMolecule.  numberOfAtoms only ever changes by
\* atomsPerMolecule, so the quotient is exact.
getNumberOfMolecules(ds) == ds.numberOfAtoms \div ds.atomsPerMolecule

\* (MAX_NUM_ATOMS / atomsPerMolecule) - (numberOfAtoms / atomsPerMolecule),
\* a floating point difference of two quotients with the same divisor.
getNumberOfRemainingSlots(ds) ==
    Frac(MAX_NUM_ATOMS - ds.numberOfAtoms, ds.atomsPerMolecule)

\* addMolecule changed to test the remaining slots after it has stored the
\* molecule instead of before.
addMolecule_CheckAfterWrite(ds, atomPositions, com, vel, rate) ==
    LET n == getNumberOfMolecules(ds)
        full == FracIsZero(getNumberOfRemainingSlots(ds))
        apm == ds.atomsPerMolecule
    IN  [ ret |-> ~full,
          ds |-> [ds EXCEPT
             !.atomPositions = [i \in AtomIdx |->
                 IF i >= ds.numberOfAtoms /\ i < ds.numberOfAtoms + apm
                 THEN atomPositions[i - ds.numberOfAtoms] ELSE @[i]],
             !.moleculeCenterOfMassPositions[n] = com,
             !.moleculeVelocities[n] = vel,
             !.moleculeRotationRates[n] = rate,
             !.moleculeForces[n] = <<0, 0>>,
             !.nextMoleculeForces[n] = <<0, 0>>,
             !.numberOfAtoms = IF full THEN @ ELSE @ + apm] ]

\* addMolecule changed to count one atom per molecule.
addMolecule_CountsOne(ds, atomPositions, com, vel, rate) ==
    LET n == getNumberOfMolecules(ds)
        apm == ds.atomsPerMolecule
    IN  IF FracIsZero(getNumberOfRemainingSlots(ds))
        THEN [ret |-> FALSE, ds |-> ds]
        ELSE [ ret |-> TRUE,
               ds |-> [ds EXCEPT
                 !.atomPositions = [i \in AtomIdx |->
                     IF i >= ds.numberOfAtoms /\ i < ds.numberOfAtoms + apm
                     THEN atomPositions[i - ds.numberOfAtoms] ELSE @[i]],
                 !.moleculeCenterOfMassPositions[n] = com,
                 !.moleculeVelocities[n] = vel,
                 !.moleculeRotationRates[n] = rate,
                 !.moleculeForces[n] = <<0, 0>>,
                 !.nextMoleculeForces[n] = <<0, 0>>,
                 !.numberOfAtoms = @ + 1] ]

\* addMolecule: [ret, ds], the return value and the dataset afterwards.
addMolecule(ds, atomPositions, com, vel, rate) ==
    LET n == getNumberOfMolecules(ds)
        apm == ds.atomsPerMolecule
    IN  IF FracIsZero(getNumberOfRemainingSlots(ds))
        THEN [ret |-> FALSE, ds |-> ds]
        ELSE [ ret |-> TRUE,
               ds |-> [ds EXCEPT
                 !.atomPositions = [i \in AtomIdx |->
                     IF i >= ds.numberOfAtoms /\ i < ds.numberOfAtoms + apm
                     THEN atomPositions[i - ds.numberOfAtoms] ELSE @[i]],
                 !.moleculeCenterOfMassPositions[n] = com,
                 !.moleculeVelocities[n] = vel,
                 !.moleculeRotationRates[n] = rate,
                 !.moleculeForces[n] = <<0, 0>>,
                 !.nextMoleculeForces[n] = <<0, 0>>,
                 !.numberOfAtoms = @ + apm] ]

\* One array after the per-molecule loop of removeMolecule:
\* for (i = k; i < n - 1; i++) a[i] = a[i + 1].
ShiftLeft(a, k, n) ==
    [i \in DOMAIN a |-> IF i >= k /\ i < n - 1 THEN a[i + 1] ELSE a[i]]

\* atomPositions after the per-atom loop of removeMolecule:
\* for (i = k * apm; i < numberOfAtoms - apm; i += apm)
\*     System.arraycopy(a, i + apm, a, i, apm).
ShiftAtomsLeft(a, k, apm, numberOfAtoms) ==
    [i \in DOMAIN a |->
        IF i >= k * apm /\ i < numberOfAtoms - apm THEN a[i + apm] ELSE a[i]]

\* removeMolecule changed to leave the velocities where they are.
removeMolecule_KeepsVelocities(ds, k) ==
    LET n == getNumberOfMolecules(ds)
        apm == ds.atomsPerMolecule
    IN  IF k >= n THEN ds
        ELSE [ds EXCEPT
          !.moleculeCenterOfMassPositions = ShiftLeft(@, k, n),
          !.moleculeForces = ShiftLeft(@, k, n),
          !.nextMoleculeForces = ShiftLeft(@, k, n),
          !.moleculeRotationAngles = ShiftLeft(@, k, n),
          !.moleculeRotationRates = ShiftLeft(@, k, n),
          !.moleculeTorques = ShiftLeft(@, k, n),
          !.nextMoleculeTorques = ShiftLeft(@, k, n),
          !.atomPositions = ShiftAtomsLeft(@, k, apm, ds.numberOfAtoms),
          !.numberOfAtoms = @ - apm]

\* removeMolecule changed to take a removed safe molecule out of the count
\* of safe molecules.
removeMolecule_DropsSafeCount(ds, k) ==
    LET n == getNumberOfMolecules(ds)
        apm == ds.atomsPerMolecule
    IN  IF k >= n THEN ds
        ELSE [ds EXCEPT
          !.moleculeCenterOfMassPositions = ShiftLeft(@, k, n),
          !.moleculeVelocities = ShiftLeft(@, k, n),
          !.moleculeForces = ShiftLeft(@, k, n),
          !.nextMoleculeForces = ShiftLeft(@, k, n),
          !.moleculeRotationAngles = ShiftLeft(@, k, n),
          !.moleculeRotationRates = ShiftLeft(@, k, n),
          !.moleculeTorques = ShiftLeft(@, k, n),
          !.nextMoleculeTorques = ShiftLeft(@, k, n),
          !.atomPositions = ShiftAtomsLeft(@, k, apm, ds.numberOfAtoms),
          !.numberOfAtoms = @ - apm,
          !.numberOfSafeMolecules = IF k >= 0 /\ k < @ THEN @ - 1 ELSE @]

\* removeMolecule: the dataset afterwards.  Only an index at or above the
\* molecule count is ignored.
removeMolecule(ds, k) ==
    LET n == getNumberOfMolecules(ds)
        apm == ds.atomsPerMolecule
    IN  IF k >= n THEN ds
        ELSE [ds EXCEPT
          !.moleculeCenterOfMassPositions = ShiftLeft(@, k, n),
          !.moleculeVelocities = ShiftLeft(@, k, n),
          !.moleculeForces = ShiftLeft(@, k, n),
          !.nextMoleculeForces = ShiftLeft(@, k, n),
          !.moleculeRotationAngles = ShiftLeft(@, k, n),
          !.moleculeRotationRates = ShiftLeft(@, k, n),
          !.moleculeTorques = ShiftLeft(@, k, n),
          !.nextMoleculeTorques = ShiftLeft(@, k, n),
          !.atomPositions = ShiftAtomsLeft(@, k, apm, ds.numberOfAtoms),
          !.numberOfAtoms = @ - apm]

\* v.x * v.x + v.y * v.y
SpeedSquared(v) == v[1] * v[1] + v[2] * v[2]

RECURSIVE SumSpeedSquared(_, _)
SumSpeedSquared(ds, n) ==
    IF n <= 0 THEN 0
    ELSE SpeedSquared(ds.moleculeVelocities[n - 1]) + SumSpeedSquared(ds, n - 1)

RECURSIVE SumRateSquared(_, _)
SumRateSquared(ds, n) ==
    IF n <= 0 THEN 0
    ELSE ds.moleculeRotationRates[n - 1][1] * ds.moleculeRotationRates[n - 1][1]
         + SumRateSquared(ds, n - 1)

\* calculateTemperatureFromKineticEnergy changed to report 0 for an empty
\* dataset.
calculateTemperatureFromKineticEnergy_ZeroWhenEmpty(ds) ==
    IF ds.numberOfAtoms = 0 THEN Frac(0, 1)
    ELSE Divide(SumSpeedSquared(ds, getNumberOfMolecules(ds)), 2 * ds.numberOfAtoms)

\* calculateTemperatureFromKineticEnergy.
\*   one atom:  (sum of (vx^2 + vy^2) / 2) / numberOfAtoms
\*   otherwise: (sum of 0.5 m v^2 + sum of 0.5 I w^2) / numberOfMolecules / 1.5
calculateTemperatureFromKineticEnergy(ds) ==
    LET n == getNumberOfMolecules(ds)
        m == moleculeMass(ds.atomsPerMolecule)
        inertia == moleculeRotationalInertia(ds.atomsPerMolecule)
    IN  IF ds.atomsPerMolecule = 1
        THEN Divide(SumSpeedSquared(ds, ds.numberOfAtoms), 2 * ds.numberOfAtoms)
        ELSE Divide(m.num * inertia.den * SumSpeedSquared(ds, n)
                      + inertia.num * m.den * SumRateSquared(ds, n),
                    3 * n * m.den * inertia.den)

\* ------------------------------------------------------------------------
\* AbstractVerletAlgorithm.updateMoleculeSafety
\* ------------------------------------------------------------------------

SAFE_INTER_MOLECULE_DISTANCE == 2

\* Square of Vector2.distance, exact on the integer grid of the model.
DistanceSquared(p, q) ==
    (p[1] - q[1]) * (p[1] - q[1]) + (p[2] - q[2]) * (p[2] - q[2])

\* The test for a molecule being too close made with <= in place of <.
TooClose_AtTheDistanceToo(p, q) ==
    DistanceSquared(p, q) <= SAFE_INTER_MOLECULE_DISTANCE * SAFE_INTER_MOLECULE_DISTANCE

\* p.distance( q ) < SAFE_INTER_MOLECULE_DISTANCE
TooClose(p, q) ==
    DistanceSquared(p, q) < SAFE_INTER_MOLECULE_DISTANCE * SAFE_INTER_MOLECULE_DISTANCE

\* Exchange of two slots of a per-molecule array.
Swap(a, i, j) == [a EXCEPT ![i] = a[j], ![j] = a[i]]

\* Exchange of the atom blocks of molecules i and j.
SwapAtoms(a, i, j, apm) ==
    [x \in DOMAIN a |->
        IF x >= i * apm /\ x < (i + 1) * apm THEN a[j * apm + (x - i * apm)]
        ELSE IF x >= j * apm /\ x < (j + 1) * apm THEN a[i * apm + (x - j * apm)]
        ELSE a[x]]

\* The exchange with the first unsafe molecule leaving the velocities where
\* they are.
SwapWithFirstUnsafe_ForgetsVelocities(ds, i) ==
    LET s == ds.numberOfSafeMolecules
    IN  [ds EXCEPT
          !.atomPositions = SwapAtoms(@, s, i, ds.atomsPerMolecule),
          !.moleculeCenterOfMassPositions = Swap(@, s, i),
          !.moleculeForces = Swap(@, s, i),
          !.moleculeRotationAngles = Swap(@, s, i),
          !.moleculeRotationRates = Swap(@, s, i)]

\* The exchange with the first unsafe molecule done as a copy: molecule i is
\* written over the first unsafe one, which is not put in its place.
SwapWithFirstUnsafe_Overwrites(ds, i) ==
    LET s == ds.numberOfSafeMolecules
        apm == ds.atomsPerMolecule
    IN  [ds EXCEPT
          !.atomPositions =
              [x \in DOMAIN @ |->
                  IF x >= s * apm /\ x < (s + 1) * apm THEN @[i * apm + (x - s * apm)]
                  ELSE @[x]],
          !.moleculeCenterOfMassPositions = [@ EXCEPT ![s] = ds.moleculeCenterOfMassPositions[i]],
          !.moleculeVelocities = [@ EXCEPT ![s] = ds.moleculeVelocities[i]],
          !.moleculeForces = [@ EXCEPT ![s] = ds.moleculeForces[i]],
          !.moleculeRotationAngles = [@ EXCEPT ![s] = ds.moleculeRotationAngles[i]],
          !.moleculeRotationRates = [@ EXCEPT ![s] = ds.moleculeRotationRates[i]]]

\* The body of "if ( i != numberOfSafeMolecules )": molecule i changes places
\* with the first unsafe one.  Torques are not exchanged.
SwapWithFirstUnsafe(ds, i) ==
    LET s == ds.numberOfSafeMolecules
    IN  [ds EXCEPT
          !.atomPositions = SwapAtoms(@, s, i, ds.atomsPerMolecule),
          !.moleculeCenterOfMassPositions = Swap(@, s, i),
          !.moleculeVelocities = Swap(@, s, i),
          !.moleculeForces = Swap(@, s, i),
          !.moleculeRotationAngles = Swap(@, s, i),
          !.moleculeRotationRates = Swap(@, s, i)]

\* The loop "for ( i = numberOfSafeMolecules; i < numberOfMolecules; i++ )"
\* from index i on; the running count of safe molecules is written back to
\* the dataset on every promotion.
RECURSIVE SafetyPass(_, _, _)
SafetyPass(ds, i, n) ==
    IF i >= n THEN ds
    ELSE LET s == ds.numberOfSafeMolecules
             moleculeIsUnsafe ==
                 \E j \in 0 .. (s - 1) :
                     TooClose(ds.moleculeCenterOfMassPositions[i],
                              ds.moleculeCenterOfMassPositions[j])
         IN  IF moleculeIsUnsafe THEN SafetyPass(ds, i + 1, n)
             ELSE SafetyPass(
                    [(IF i # s THEN SwapWithFirstUnsafe(ds, i) ELSE ds)
                        EXCEPT !.numberOfSafeMolecules = s + 1],
                    i + 1, n)

updateMoleculeSafety(ds) ==
    LET n == getNumberOfMolecules(ds)
    IN  IF n = ds.numberOfSafeMolecules THEN ds
        ELSE SafetyPass(ds, ds.numberOfSafeMolecules, n)

\* What a sub-step of the force and motion calculator leaves in the dataset,
\* as far as the dataset operations can tell: every molecule has a force, a
\* next force, a rotation angle and torques that depend on where it is (the
\* torques are zero until it is safe), and updateMoleculeSafety has run.
ComputedDynamics(ds) ==
    LET n == getNumberOfMolecules(ds)
        com == ds.moleculeCenterOfMassPositions
        here(i) == i >= 0 /\ i < n
        torque(i) == IF i < ds.numberOfSafeMolecules THEN <<com[i][1] + 1>> ELSE <<0>>
    IN  [ds EXCEPT
          !.moleculeForces =
              [i \in MolIdx |-> IF here(i) THEN <<com[i][1] + 1, com[i][2]>> ELSE @[i]],
          !.nextMoleculeForces =
              [i \in MolIdx |-> IF here(i) THEN <<com[i][1] + 2, com[i][2]>> ELSE @[i]],
          !.moleculeRotationAngles =
              [i \in MolIdx |-> IF here(i) THEN <<com[i][1]>> ELSE @[i]],
          !.moleculeTorques =
              [i \in MolIdx |-> IF here(i) THEN torque(i) ELSE @[i]],
          !.nextMoleculeTorques =
              [i \in MolIdx |-> IF here(i) THEN torque(i) ELSE @[i]]]

updateForcesAndMotion(ds) == updateMoleculeSafety(ComputedDynamics(ds))

\* ------------------------------------------------------------------------
\* Numbers of the model level
\*
\* Temperatures are held in units of 1/10000, pressures and wall forces in
\* units of 1/100, the gravitational acceleration in units of 1/1000 and
\* the pressure weighting in units of 1/1000; a result that falls between
\* two units is rounded to the nearest one.  Lengths in picometers and
\* normalized positions are integers; a normalized container size is the
\* fraction size / particleDiameter.
\* ------------------------------------------------------------------------

\* Math.round( n / d ), d > 0
Round(n, d) == (2 * n + d) \div (2 * d)

\* Number.POSITIVE_INFINITY
Infinity == Frac(1, 0)

\* p < q, for fractions whose denominator is not negative
FracLess(p, q) == p.num * q.den < q.num * p.den

\* p - q, for finite fractions
FracMinus(p, q) == Frac(p.num * q.den - q.num * p.den, p.den * q.den)

\* p * n / d
FracScale(p, n, d) == Frac(p.num * n, p.den * d)

\* A fraction as a temperature in units of 1/10000.
ToTemperature(q) == Round(q.num * 10000, q.den)

\* ------------------------------------------------------------------------
\* StatesOfMatterConstants and the atoms
\* ------------------------------------------------------------------------

\* Molecule identifiers.
NEON == 1
ARGON == 2
DIATOMIC_OXYGEN == 4
WATER == 5
USER_DEFINED_MOLECULE == 6

\* Size of the container, in picometers.
PARTICLE_CONTAINER_WIDTH == 1400
PARTICLE_CONTAINER_INITIAL_HEIGHT == 1000

\* NeonAtom.RADIUS and ArgonAtom.RADIUS, in picometers.
NEON_RADIUS == 154
ARGON_RADIUS == 181

\* ------------------------------------------------------------------------
\* AbstractVerletAlgorithm: walls and pressure
\* ------------------------------------------------------------------------

PRESSURE_CALC_WEIGHTING == 999

WALL_DISTANCE_THRESHOLD == Frac(11225, 10000)

EXPLOSION_PRESSURE == 105

\* model.explodeContainer(): the container enters the Exploded state.
explodeContainer == TRUE

\* A component of resultantForce: <<>> while calculateWallForce has not set
\* it, <<sign, d>> once it is set to sign * (48 / d^13 - 24 / d^7), which is
\* zero for an infinite d.
NotSet == <<>>

\* calculateWallForce that never calls explodeContainer.
calculateWallForce_FloorNeverBreaks(position, containerWidth, containerHeight, isExploded0, normalizedContainerWidth0) ==
    LET x == Frac(position[1], 1)
        y == Frac(position[2], 1)
        zero == Frac(0, 1)
        minDistance == FracScale(WALL_DISTANCE_THRESHOLD, 8, 10)
        belowWidth == FracLess(y, normalizedContainerWidth0)
        nearLeft == belowWidth /\ FracLess(x, WALL_DISTANCE_THRESHOLD)
        fromRight == FracMinus(containerWidth, x)
        nearRight ==
            belowWidth /\ ~nearLeft /\ FracLess(fromRight, WALL_DISTANCE_THRESHOLD)
        leftOutside == FracLess(x, zero) /\ isExploded0
        rightOutside == FracLess(fromRight, zero) /\ isExploded0
        \* xPos once the X direction is done
        xPos ==
            IF nearLeft /\ FracLess(x, minDistance)
            THEN IF leftOutside THEN Infinity ELSE minDistance
            ELSE IF nearRight /\ FracLess(fromRight, minDistance) /\ rightOutside
                 THEN Infinity
                 ELSE x
        \* distance once the right wall is done
        distanceRight ==
            IF FracLess(fromRight, minDistance) /\ ~rightOutside
            THEN minDistance ELSE fromRight
        forceX ==
            IF nearLeft THEN <<1, xPos>>
            ELSE IF nearRight THEN <<0 - 1, distanceRight>>
            ELSE NotSet
        energyX ==
            IF nearLeft THEN <<xPos>>
            ELSE IF nearRight THEN <<distanceRight>>
            ELSE <<>>
        \* Y direction
        nearBottom == FracLess(y, WALL_DISTANCE_THRESHOLD)
        explodes ==
            nearBottom /\ FracLess(y, minDistance) /\ FracLess(y, zero) /\ ~isExploded0
        isExploded1 == isExploded0
        yPos == IF nearBottom /\ FracLess(y, minDistance) THEN minDistance ELSE y
        inside == FracLess(zero, xPos) /\ FracLess(xPos, containerWidth)
        bottomForce == nearBottom /\ (~isExploded1 \/ inside)
        fromTop == FracMinus(containerHeight, y)
        nearTop ==
            ~nearBottom /\ FracLess(fromTop, WALL_DISTANCE_THRESHOLD) /\ ~isExploded1
        distanceTop == IF FracLess(fromTop, minDistance) THEN minDistance ELSE fromTop
        forceY ==
            IF bottomForce THEN <<1, yPos>>
            ELSE IF nearTop THEN <<0 - 1, distanceTop>>
            ELSE NotSet
        energyY ==
            IF bottomForce THEN <<yPos>>
            ELSE IF nearTop THEN <<distanceTop>>
            ELSE <<>>
    IN  [ resultantForce |-> <<forceX, forceY>>,
          potentialEnergy |-> energyX \o energyY,
          isExploded |-> isExploded1 ]

\* calculateWallForce that lets the floor act on every position below the lid.
calculateWallForce_FloorFeltToTheLid(position, containerWidth, containerHeight, isExploded0, normalizedContainerWidth0) ==
    LET x == Frac(position[1], 1)
        y == Frac(position[2], 1)
        zero == Frac(0, 1)
        minDistance == FracScale(WALL_DISTANCE_THRESHOLD, 8, 10)
        belowWidth == FracLess(y, normalizedContainerWidth0)
        nearLeft == belowWidth /\ FracLess(x, WALL_DISTANCE_THRESHOLD)
        fromRight == FracMinus(containerWidth, x)
        nearRight ==
            belowWidth /\ ~nearLeft /\ FracLess(fromRight, WALL_DISTANCE_THRESHOLD)
        leftOutside == FracLess(x, zero) /\ isExploded0
        rightOutside == FracLess(fromRight, zero) /\ isExploded0
        \* xPos once the X direction is done
        xPos ==
            IF nearLeft /\ FracLess(x, minDistance)
            THEN IF leftOutside THEN Infinity ELSE minDistance
            ELSE IF nearRight /\ FracLess(fromRight, minDistance) /\ rightOutside
                 THEN Infinity
                 ELSE x
        \* distance once the right wall is done
        distanceRight ==
            IF FracLess(fromRight, minDistance) /\ ~rightOutside
            THEN minDistance ELSE fromRight
        forceX ==
            IF nearLeft THEN <<1, xPos>>
            ELSE IF nearRight THEN <<0 - 1, distanceRight>>
            ELSE NotSet
        energyX ==
            IF nearLeft THEN <<xPos>>
            ELSE IF nearRight THEN <<distanceRight>>
            ELSE <<>>
        \* Y direction
        nearBottom == FracLess(y, containerHeight)
        explodes ==
            nearBottom /\ FracLess(y, minDistance) /\ FracLess(y, zero) /\ ~isExploded0
        isExploded1 == IF explodes THEN explodeContainer ELSE isExploded0
        yPos == IF nearBottom /\ FracLess(y, minDistance) THEN minDistance ELSE y
        inside == FracLess(zero, xPos) /\ FracLess(xPos, containerWidth)
        bottomForce == nearBottom /\ (~isExploded1 \/ inside)
        fromTop == FracMinus(containerHeight, y)
        nearTop ==
            ~nearBottom /\ FracLess(fromTop, WALL_DISTANCE_THRESHOLD) /\ ~isExploded1
        distanceTop == IF FracLess(fromTop, minDistance) THEN minDistance ELSE fromTop
        forceY ==
            IF bottomForce THEN <<1, yPos>>
            ELSE IF nearTop THEN <<0 - 1, distanceTop>>
            ELSE NotSet
        energyY ==
            IF bottomForce THEN <<yPos>>
            ELSE IF nearTop THEN <<distanceTop>>
            ELSE <<>>
    IN  [ resultantForce |-> <<forceX, forceY>>,
          potentialEnergy |-> energyX \o energyY,
          isExploded |-> isExploded1 ]

\* calculateWallForce( position, containerWidth, containerHeight,
\* resultantForce ), with model.isExploded and model.normalizedContainerWidth
\* as read by it.  Yields the components set in resultantForce, the
\* distances d of the terms 4 / d^12 - 4 / d^6 + 1 added to potentialEnergy,
\* and model.isExploded on return.
calculateWallForce(position, containerWidth, containerHeight, isExploded0, normalizedContainerWidth0) ==
    LET x == Frac(position[1], 1)
        y == Frac(position[2], 1)
        zero == Frac(0, 1)
        minDistance == FracScale(WALL_DISTANCE_THRESHOLD, 8, 10)
        belowWidth == FracLess(y, normalizedContainerWidth0)
        nearLeft == belowWidth /\ FracLess(x, WALL_DISTANCE_THRESHOLD)
        fromRight == FracMinus(containerWidth, x)
        nearRight ==
            belowWidth /\ ~nearLeft /\ FracLess(fromRight, WALL_DISTANCE_THRESHOLD)
        leftOutside == FracLess(x, zero) /\ isExploded0
        rightOutside == FracLess(fromRight, zero) /\ isExploded0
        \* xPos once the X direction is done
        xPos ==
            IF nearLeft /\ FracLess(x, minDistance)
            THEN IF leftOutside THEN Infinity ELSE minDistance
            ELSE IF nearRight /\ FracLess(fromRight, minDistance) /\ rightOutside
                 THEN Infinity
                 ELSE x
        \* distance once the right wall is done
        distanceRight ==
            IF FracLess(fromRight, minDistance) /\ ~rightOutside
            THEN minDistance ELSE fromRight
        forceX ==
            IF nearLeft THEN <<1, xPos>>
            ELSE IF nearRight THEN <<0 - 1, distanceRight>>
            ELSE NotSet
        energyX ==
            IF nearLeft THEN <<xPos>>
            ELSE IF nearRight THEN <<distanceRight>>
            ELSE <<>>
        \* Y direction
        nearBottom == FracLess(y, WALL_DISTANCE_THRESHOLD)
        explodes ==
            nearBottom /\ FracLess(y, minDistance) /\ FracLess(y, zero) /\ ~isExploded0
        isExploded1 == IF explodes THEN explodeContainer ELSE isExploded0
        yPos == IF nearBottom /\ FracLess(y, minDistance) THEN minDistance ELSE y
        inside == FracLess(zero, xPos) /\ FracLess(xPos, containerWidth)
        bottomForce == nearBottom /\ (~isExploded1 \/ inside)
        fromTop == FracMinus(containerHeight, y)
        nearTop ==
            ~nearBottom /\ FracLess(fromTop, WALL_DISTANCE_THRESHOLD) /\ ~isExploded1
        distanceTop == IF FracLess(fromTop, minDistance) THEN minDistance ELSE fromTop
        forceY ==
            IF bottomForce THEN <<1, yPos>>
            ELSE IF nearTop THEN <<0 - 1, distanceTop>>
            ELSE NotSet
        energyY ==
            IF bottomForce THEN <<yPos>>
            ELSE IF nearTop THEN <<distanceTop>>
            ELSE <<>>
    IN  [ resultantForce |-> <<forceX, forceY>>,
          potentialEnergy |-> energyX \o energyY,
          isExploded |-> isExploded1 ]

\* updatePressure( pressureZoneWallForce ) that tests the pressure it found
\* rather than the one it has just computed.
updatePressure_TestsOldPressure(pressure0, isExploded0, pressureZoneWallForce, perimeter) ==
    IF isExploded0
    THEN [ pressure |-> 0, isExploded |-> isExploded0 ]
    ELSE LET p == Round((1000 - PRESSURE_CALC_WEIGHTING) * pressureZoneWallForce * perimeter.den
                          + PRESSURE_CALC_WEIGHTING * pressure0 * perimeter.num,
                        1000 * perimeter.num)
         IN  [ pressure |-> p,
               isExploded |-> IF pressure0 > EXPLOSION_PRESSURE /\ ~isExploded0
                              THEN explodeContainer ELSE isExploded0 ]

\* updatePressure( pressureZoneWallForce ) with the flag cleared again by a
\* pressure at or below EXPLOSION_PRESSURE.
updatePressure_FlagFollowsPressure(pressure0, isExploded0, pressureZoneWallForce, perimeter) ==
    LET p == IF isExploded0 THEN 0
             ELSE Round((1000 - PRESSURE_CALC_WEIGHTING) * pressureZoneWallForce * perimeter.den
                          + PRESSURE_CALC_WEIGHTING * pressure0 * perimeter.num,
                        1000 * perimeter.num)
    IN  [ pressure |-> p, isExploded |-> p > EXPLOSION_PRESSURE ]

\* updatePressure( pressureZoneWallForce ) that leaves this.pressure as it is
\* once the container has exploded.
updatePressure_KeepsPressure(pressure0, isExploded0, pressureZoneWallForce, perimeter) ==
    IF isExploded0
    THEN [ pressure |-> pressure0, isExploded |-> isExploded0 ]
    ELSE LET p == Round((1000 - PRESSURE_CALC_WEIGHTING) * pressureZoneWallForce * perimeter.den
                          + PRESSURE_CALC_WEIGHTING * pressure0 * perimeter.num,
                        1000 * perimeter.num)
         IN  [ pressure |-> p,
               isExploded |-> IF p > EXPLOSION_PRESSURE /\ ~isExploded0
                              THEN explodeContainer ELSE isExploded0 ]

\* updatePressure( pressureZoneWallForce ), with this.pressure and
\* model.isExploded as it finds them and perimeter standing for
\* normalizedContainerWidth + getNormalizedContainerHeight().  Yields
\* this.pressure and model.isExploded on return.
updatePressure(pressure0, isExploded0, pressureZoneWallForce, perimeter) ==
    IF isExploded0
    THEN [ pressure |-> 0, isExploded |-> isExploded0 ]
    ELSE LET p == Round((1000 - PRESSURE_CALC_WEIGHTING) * pressureZoneWallForce * perimeter.den
                          + PRESSURE_CALC_WEIGHTING * pressure0 * perimeter.num,
                        1000 * perimeter.num)
         IN  [ pressure |-> p,
               isExploded |-> IF p > EXPLOSION_PRESSURE /\ ~isExploded0
                              THEN explodeContainer ELSE isExploded0 ]

\* ------------------------------------------------------------------------
\* MultipleParticleModel
\*
\* The operators below take and yield the model as a record m of its
\* fields; the fields of the calculator (pressure, temperature) and of the
\* two thermostats (their target temperatures) are held in the same record.
\* ------------------------------------------------------------------------

SOLID_TEMPERATURE == 1500
LIQUID_TEMPERATURE == 3400
GAS_TEMPERATURE == 10000
INITIAL_TEMPERATURE == SOLID_TEMPERATURE
MAX_TEMPERATURE == 500000
MIN_TEMPERATURE == 1
INITIAL_GRAVITATIONAL_ACCEL == 45
MAX_TEMPERATURE_CHANGE_PER_ADJUSTMENT == 250
TICKS_PER_TEMP_ADJUSTMENT == 10
VERLET_CALCULATIONS_PER_CLOCK_TICK == 8

PHASE_SOLID == 1
PHASE_LIQUID == 2
PHASE_GAS == 3

NO_THERMOSTAT == 0
ISOKINETIC_THERMOSTAT == 1
ANDERSEN_THERMOSTAT == 2
ADAPTIVE_THERMOSTAT == 3

MAX_PER_TICK_CONTAINER_SHRINKAGE == 50
MAX_PER_TICK_CONTAINER_EXPANSION == 200
CONTAINER_SIZE_CHANGE_RESET_COUNT == 25
TEMPERATURE_CLOSENESS_RANGE == 1500
PARTICLE_EDGE_PROXIMITY_RANGE == Frac(5, 2)
TRIPLE_POINT_MONATOMIC_MODEL_TEMPERATURE == 2600
NEON_TRIPLE_POINT_IN_KELVIN == 23
ARGON_TRIPLE_POINT_IN_KELVIN == 75

DEFAULT_MOLECULE == NEON

SupportedMolecules == {DIATOMIC_OXYGEN, NEON, ARGON, WATER, USER_DEFINED_MOLECULE}

\* particleDiameter as setMoleculeType sets it for NEON and ARGON.
particleDiameter(moleculeID) ==
    IF moleculeID = ARGON THEN ARGON_RADIUS * 2 ELSE NEON_RADIUS * 2

\* minModelTemperature as setMoleculeType sets it for NEON and ARGON:
\* 0.5 * TRIPLE_POINT_MONATOMIC_MODEL_TEMPERATURE / the triple point in Kelvin.
minModelTemperature(moleculeID) ==
    Frac(TRIPLE_POINT_MONATOMIC_MODEL_TEMPERATURE,
         2 * (IF moleculeID = ARGON THEN ARGON_TRIPLE_POINT_IN_KELVIN
              ELSE NEON_TRIPLE_POINT_IN_KELVIN))

normalizedContainerWidth(m) ==
    Frac(PARTICLE_CONTAINER_WIDTH, particleDiameter(m.currentMolecule))

normalizedContainerHeight(m) ==
    Frac(m.particleContainerHeight, particleDiameter(m.currentMolecule))

\* dot's Util.clamp( value, min, max )
clamp(value, min, max) ==
    IF value < min THEN min ELSE IF value > max THEN max ELSE value

initializeModelParameters(m) ==
    [m EXCEPT !.gravitationalAcceleration = INITIAL_GRAVITATIONAL_ACCEL,
              !.heatingCoolingAmount = 0,
              !.tempAdjustTickCounter = 0,
              !.temperatureSetPoint = INITIAL_TEMPERATURE,
              !.isExploded = FALSE]

MAX_GRAVITATIONAL_ACCEL == 400

\* setTemperature( newTemperature ) with no lower limit on the set point.
setTemperature_NoLowerLimit(m, newTemperature) ==
    [m EXCEPT !.temperatureSetPoint =
                  IF newTemperature > MAX_TEMPERATURE THEN MAX_TEMPERATURE
                  ELSE newTemperature,
              !.isoKineticTargetTemperature = newTemperature,
              !.andersenTargetTemperature = newTemperature]

setTemperature(m, newTemperature) ==
    [m EXCEPT !.temperatureSetPoint =
                  IF newTemperature > MAX_TEMPERATURE THEN MAX_TEMPERATURE
                  ELSE IF newTemperature < MIN_TEMPERATURE THEN MIN_TEMPERATURE
                  ELSE newTemperature,
              !.isoKineticTargetTemperature = newTemperature,
              !.andersenTargetTemperature = newTemperature]

setThermostatType(m, type) == [m EXCEPT !.thermostatType = type]

\* setGravitationalAcceleration( acceleration ), for an acceleration within
\* [0, MAX_GRAVITATIONAL_ACCEL].
setGravitationalAcceleration(m, acceleration) ==
    [m EXCEPT !.gravitationalAcceleration = acceleration]

\* injectMolecule(): the body of the function is empty.
injectMolecule(m) == m

setTargetParticleContainerHeight(m, desiredContainerHeight) ==
    [m EXCEPT !.targetContainerHeight =
                  clamp(m.minAllowableContainerHeight, desiredContainerHeight,
                        PARTICLE_CONTAINER_INITIAL_HEIGHT)]

\* setHeatingCoolingAmount( normalizedHeatingCoolingAmount ) for an amount
\* given in tenths.
setHeatingCoolingAmountInTenths(m, tenths) ==
    [m EXCEPT !.heatingCoolingAmount =
                  Round(tenths * MAX_TEMPERATURE_CHANGE_PER_ADJUSTMENT, 10)]

setHeatingCoolingAmount(m, normalizedHeatingCoolingAmount) ==
    [m EXCEPT !.heatingCoolingAmount =
                  normalizedHeatingCoolingAmount * MAX_TEMPERATURE_CHANGE_PER_ADJUSTMENT]

\* Where phaseStateChanger.setPhase puts molecule i and the velocity it gives
\* it: at rest on a row near the floor for a solid, moving on that row for a
\* liquid, moving and higher up for a gas.
PhasePlacement(phase, i) ==
    [ com |-> <<2 + 3 * i, IF phase = PHASE_GAS THEN 2 ELSE 1>>,
      vel |-> IF phase \in {PHASE_LIQUID, PHASE_GAS} THEN <<1, 0>> ELSE <<0, 0>> ]

\* phaseStateChanger.setPhase( phase ) on a dataset of single atoms: every
\* molecule is placed and given a velocity, and all are marked safe.
PhaseStateChangerSetPhase(ds, phase) ==
    LET n == getNumberOfMolecules(ds)
        here(i) == i >= 0 /\ i < n
    IN  [ds EXCEPT
          !.moleculeCenterOfMassPositions =
              [i \in MolIdx |-> IF here(i) THEN PhasePlacement(phase, i).com ELSE @[i]],
          !.atomPositions =
              [i \in AtomIdx |-> IF here(i) THEN PhasePlacement(phase, i).com ELSE @[i]],
          !.moleculeVelocities =
              [i \in MolIdx |-> IF here(i) THEN PhasePlacement(phase, i).vel ELSE @[i]],
          !.numberOfSafeMolecules = n]

\* setPhase( state ): a state that is none of the three is treated as a solid.
setPhase(m, state) ==
    [m EXCEPT !.moleculeDataSet =
                  PhaseStateChangerSetPhase(
                      @, IF state \in {PHASE_SOLID, PHASE_LIQUID, PHASE_GAS}
                         THEN state ELSE PHASE_SOLID)]

mapTemperatureToPhase(m) ==
    IF 2 * m.temperatureSetPoint < 2 * SOLID_TEMPERATURE + (LIQUID_TEMPERATURE - SOLID_TEMPERATURE)
    THEN PHASE_SOLID
    ELSE IF 2 * m.temperatureSetPoint < 2 * LIQUID_TEMPERATURE + (GAS_TEMPERATURE - LIQUID_TEMPERATURE)
         THEN PHASE_LIQUID
         ELSE PHASE_GAS

\* ( numberOfMolecules / normalizedContainerWidth ) * particleDiameter,
\* to the nearest picometer.
calculateMinAllowableContainerHeight(m) ==
    LET d == particleDiameter(m.currentMolecule)
    IN  [m EXCEPT !.minAllowableContainerHeight =
                      Round(getNumberOfMolecules(m.moleculeDataSet) * d * d,
                            PARTICLE_CONTAINER_WIDTH)]

\* The loop of initializeMonatomic that adds the atoms, each at the origin
\* and at rest.
RECURSIVE AddAtoms(_, _)
AddAtoms(ds, k) ==
    IF k = 0 THEN ds
    ELSE AddAtoms(addMolecule(ds, [j \in {0} |-> <<0, 0>>], <<0, 0>>, <<0, 0>>, <<0>>).ds,
                  k - 1)

\* initializeMonatomic( moleculeID, phase ): a new dataset, a new calculator
\* and new thermostats, the atoms, then setPhase( phase ).
initializeMonatomic(m, moleculeID, phase) ==
    LET d == IF moleculeID = ARGON THEN ARGON_RADIUS * 2 ELSE NEON_RADIUS * 2
        side == Round(PARTICLE_CONTAINER_WIDTH * 100, d * 315)
        numberOfAtoms == side * side
        ds == AddAtoms(MoleculeForceAndMotionDataSet(1), numberOfAtoms)
    IN  setPhase([m EXCEPT !.moleculeDataSet = ds,
                           !.pressure = 0,
                           !.temperature = 0,
                           !.isoKineticTargetTemperature = INITIAL_TEMPERATURE,
                           !.andersenTargetTemperature = INITIAL_TEMPERATURE,
                           !.thermostatRun = {}],
                 phase)

resetContainerSize(m) ==
    [m EXCEPT !.particleContainerHeight = PARTICLE_CONTAINER_INITIAL_HEIGHT,
              !.targetContainerHeight = PARTICLE_CONTAINER_INITIAL_HEIGHT]

\* setMoleculeType( moleculeID ) taking the phase from the set point after
\* the parameters have been initialized again.
setMoleculeType_PhaseAfterInitialization(m, moleculeID) ==
    LET m1 == [initializeModelParameters(m) EXCEPT !.currentMolecule = moleculeID]
        phase == mapTemperatureToPhase(m1)
    IN  calculateMinAllowableContainerHeight(
            initializeMonatomic(resetContainerSize(m1), moleculeID, phase))

\* setMoleculeType( moleculeID ) for NEON and ARGON, with initializeParticles.
setMoleculeType(m, moleculeID) ==
    LET phase == mapTemperatureToPhase(m)
        m1 == [initializeModelParameters(m) EXCEPT !.currentMolecule = moleculeID]
    IN  calculateMinAllowableContainerHeight(
            initializeMonatomic(resetContainerSize(m1), moleculeID, phase))

\* reset(): PropertySet's reset puts the properties back to the values the
\* constructor gave them.
reset(m) ==
    setMoleculeType(
        initializeModelParameters(
            [m EXCEPT !.particleContainerHeight = PARTICLE_CONTAINER_INITIAL_HEIGHT,
                      !.targetContainerHeight = PARTICLE_CONTAINER_INITIAL_HEIGHT,
                      !.temperatureSetPoint = 0]),
        DEFAULT_MOLECULE)

\* The constructor.
MultipleParticleModel ==
    setMoleculeType(
        initializeModelParameters(
            [ currentMolecule |-> DEFAULT_MOLECULE,
              isExploded |-> FALSE,
              temperatureSetPoint |-> 0,
              heatingCoolingAmount |-> 0,
              tempAdjustTickCounter |-> 0,
              thermostatType |-> ADAPTIVE_THERMOSTAT,
              heightChangeCounter |-> DEFAULT_MOLECULE,
              particleContainerHeight |-> PARTICLE_CONTAINER_INITIAL_HEIGHT,
              targetContainerHeight |-> PARTICLE_CONTAINER_INITIAL_HEIGHT,
              minAllowableContainerHeight |-> 0,
              gravitationalAcceleration |-> 0,
              moleculeDataSet |-> MoleculeForceAndMotionDataSet(1),
              pressure |-> 0,
              temperature |-> 0,
              isoKineticTargetTemperature |-> INITIAL_TEMPERATURE,
              andersenTargetTemperature |-> INITIAL_TEMPERATURE,
              thermostatRun |-> {} ]),
        DEFAULT_MOLECULE)

particlesNearTop(m) ==
    LET threshold == FracMinus(normalizedContainerHeight(m), PARTICLE_EDGE_PROXIMITY_RANGE)
        com == m.moleculeDataSet.moleculeCenterOfMassPositions
    IN  \E i \in 0 .. (getNumberOfMolecules(m.moleculeDataSet) - 1) :
            FracLess(threshold, Frac(com[i][2], 1))

\* runThermostat() with the thermostats left alone by a moving lid in the
\* adaptive mode only.
runThermostat_SuppressesAdaptiveOnly(m) ==
    IF m.isExploded THEN [m EXCEPT !.thermostatRun = {}]
    ELSE
    LET calculatedTemperature == m.temperature
        temperatureIsChanging ==
            \/ m.heatingCoolingAmount # 0
            \/ m.temperatureSetPoint + TEMPERATURE_CLOSENESS_RANGE < calculatedTemperature
            \/ m.temperatureSetPoint - TEMPERATURE_CLOSENESS_RANGE > calculatedTemperature
    IN  IF /\ m.thermostatType = ADAPTIVE_THERMOSTAT
           /\ m.heightChangeCounter # 0
           /\ particlesNearTop(m)
        THEN [setTemperature(m, ToTemperature(
                  calculateTemperatureFromKineticEnergy(m.moleculeDataSet)))
              EXCEPT !.thermostatRun = {}]
        ELSE IF \/ m.thermostatType = ISOKINETIC_THERMOSTAT
                \/ /\ m.thermostatType = ADAPTIVE_THERMOSTAT
                   /\ (temperatureIsChanging \/ m.temperatureSetPoint > LIQUID_TEMPERATURE)
        THEN [m EXCEPT !.thermostatRun = {"isokinetic"}]
        ELSE IF \/ m.thermostatType = ANDERSEN_THERMOSTAT
                \/ (m.thermostatType = ADAPTIVE_THERMOSTAT /\ ~temperatureIsChanging)
        THEN [m EXCEPT !.thermostatRun = {"andersen"}]
        ELSE [m EXCEPT !.thermostatRun = {}]

\* runThermostat() with the test for the Andersen thermostat made before the
\* one for the isokinetic thermostat.
runThermostat_AndersenFirst(m) ==
    IF m.isExploded THEN [m EXCEPT !.thermostatRun = {}]
    ELSE
    LET calculatedTemperature == m.temperature
        temperatureIsChanging ==
            \/ m.heatingCoolingAmount # 0
            \/ m.temperatureSetPoint + TEMPERATURE_CLOSENESS_RANGE < calculatedTemperature
            \/ m.temperatureSetPoint - TEMPERATURE_CLOSENESS_RANGE > calculatedTemperature
    IN  IF m.heightChangeCounter # 0 /\ particlesNearTop(m)
        THEN [setTemperature(m, ToTemperature(
                  calculateTemperatureFromKineticEnergy(m.moleculeDataSet)))
              EXCEPT !.thermostatRun = {}]
        ELSE IF \/ m.thermostatType = ANDERSEN_THERMOSTAT
                \/ (m.thermostatType = ADAPTIVE_THERMOSTAT /\ ~temperatureIsChanging)
        THEN [m EXCEPT !.thermostatRun = {"andersen"}]
        ELSE IF \/ m.thermostatType = ISOKINETIC_THERMOSTAT
                \/ /\ m.thermostatType = ADAPTIVE_THERMOSTAT
                   /\ (temperatureIsChanging \/ m.temperatureSetPoint > LIQUID_TEMPERATURE)
        THEN [m EXCEPT !.thermostatRun = {"isokinetic"}]
        ELSE [m EXCEPT !.thermostatRun = {}]

\* runThermostat() with the tests for the two thermostats made one after the
\* other instead of in an else-if chain.
runThermostat_EachTestOnItsOwn(m) ==
    IF m.isExploded THEN [m EXCEPT !.thermostatRun = {}]
    ELSE
    LET calculatedTemperature == m.temperature
        temperatureIsChanging ==
            \/ m.heatingCoolingAmount # 0
            \/ m.temperatureSetPoint + TEMPERATURE_CLOSENESS_RANGE < calculatedTemperature
            \/ m.temperatureSetPoint - TEMPERATURE_CLOSENESS_RANGE > calculatedTemperature
        isokinetic ==
            \/ m.thermostatType = ISOKINETIC_THERMOSTAT
            \/ /\ m.thermostatType = ADAPTIVE_THERMOSTAT
               /\ (temperatureIsChanging \/ m.temperatureSetPoint > LIQUID_TEMPERATURE)
        andersen ==
            \/ m.thermostatType = ANDERSEN_THERMOSTAT
            \/ (m.thermostatType = ADAPTIVE_THERMOSTAT /\ ~temperatureIsChanging)
    IN  IF m.heightChangeCounter # 0 /\ particlesNearTop(m)
        THEN [setTemperature(m, ToTemperature(
                  calculateTemperatureFromKineticEnergy(m.moleculeDataSet)))
              EXCEPT !.thermostatRun = {}]
        ELSE [m EXCEPT !.thermostatRun =
                  (IF isokinetic THEN {"isokinetic"} ELSE {})
                      \cup (IF andersen THEN {"andersen"} ELSE {})]

\* runThermostat().  What a thermostat does to the velocities is not kept:
\* thermostatRun records the thermostats whose adjustTemperature() this call
\* ran.
runThermostat(m) ==
    IF m.isExploded THEN [m EXCEPT !.thermostatRun = {}]
    ELSE
    LET calculatedTemperature == m.temperature
        temperatureIsChanging ==
            \/ m.heatingCoolingAmount # 0
            \/ m.temperatureSetPoint + TEMPERATURE_CLOSENESS_RANGE < calculatedTemperature
            \/ m.temperatureSetPoint - TEMPERATURE_CLOSENESS_RANGE > calculatedTemperature
    IN  IF m.heightChangeCounter # 0 /\ particlesNearTop(m)
        THEN [setTemperature(m, ToTemperature(
                  calculateTemperatureFromKineticEnergy(m.moleculeDataSet)))
              EXCEPT !.thermostatRun = {}]
        ELSE IF \/ m.thermostatType = ISOKINETIC_THERMOSTAT
                \/ /\ m.thermostatType = ADAPTIVE_THERMOSTAT
                   /\ (temperatureIsChanging \/ m.temperatureSetPoint > LIQUID_TEMPERATURE)
        THEN [m EXCEPT !.thermostatRun = {"isokinetic"}]
        ELSE IF \/ m.thermostatType = ANDERSEN_THERMOSTAT
                \/ (m.thermostatType = ADAPTIVE_THERMOSTAT /\ ~temperatureIsChanging)
        THEN [m EXCEPT !.thermostatRun = {"andersen"}]
        ELSE [m EXCEPT !.thermostatRun = {}]

\* What the integration of one tick yields, an input of the model: where
\* molecule 0 is and how fast it moves, and the wall force summed over the
\* pressure zone.
Integration(com, vel, pressureZoneWallForce) ==
    [com |-> com, vel |-> vel, pressureZoneWallForce |-> pressureZoneWallForce]

\* The wall force is evaluated for the molecules i .. n - 1 in turn; yields
\* model.isExploded after the last evaluation.
RECURSIVE WallForces(_, _, _, _)
WallForces(m, i, n, isExploded0) ==
    IF i >= n THEN isExploded0
    ELSE WallForces(m, i + 1, n,
             calculateWallForce(m.moleculeDataSet.moleculeCenterOfMassPositions[i],
                                normalizedContainerWidth(m),
                                normalizedContainerHeight(m),
                                isExploded0,
                                normalizedContainerWidth(m)).isExploded)

\* moleculeForceAndMotionCalculator.updateForcesAndMotion() at the level of
\* the model: the molecules are moved, the wall force is evaluated for each
\* of them, the pressure is updated, the forces are recomputed with
\* updateMoleculeSafety, and the temperature is taken from the kinetic
\* energy.
CalculatorUpdateForcesAndMotion(m, integration) ==
    LET ds0 == m.moleculeDataSet
        n == getNumberOfMolecules(ds0)
        moved == IF n > 0
                 THEN [ds0 EXCEPT !.moleculeCenterOfMassPositions[0] = integration.com,
                                  !.atomPositions[0] = integration.com,
                                  !.moleculeVelocities[0] = integration.vel]
                 ELSE ds0
        m1 == [m EXCEPT !.moleculeDataSet = moved]
        walls == WallForces(m1, 0, n, m.isExploded)
        perimeter == Frac(PARTICLE_CONTAINER_WIDTH + m.particleContainerHeight,
                          particleDiameter(m.currentMolecule))
        p == updatePressure(m.pressure, walls, integration.pressureZoneWallForce, perimeter)
        ds1 == updateForcesAndMotion(moved)
    IN  [m EXCEPT !.moleculeDataSet = ds1,
                  !.isExploded = p.isExploded,
                  !.pressure = p.pressure,
                  !.temperature = ToTemperature(calculateTemperatureFromKineticEnergy(ds1))]

\* The loop of step() over the Verlet calculations, i of them still to run.
RECURSIVE VerletCalculations(_, _, _)
VerletCalculations(m, i, integration) ==
    IF i = 0 THEN m
    ELSE VerletCalculations(runThermostat(CalculatorUpdateForcesAndMotion(m, integration)),
                            i - 1, integration)

\* The first part of step() with the height of an exploded container
\* following targetContainerHeight like that of an intact one.
AdjustContainerHeight_ExplodedFollowsTarget(m) ==
    LET h == m.particleContainerHeight
        heightChange == m.targetContainerHeight - h
    IN  IF m.targetContainerHeight # h
        THEN [m EXCEPT
               !.heightChangeCounter = CONTAINER_SIZE_CHANGE_RESET_COUNT,
               !.particleContainerHeight =
                   IF heightChange > 0
                   THEN IF h + heightChange <= PARTICLE_CONTAINER_INITIAL_HEIGHT
                        THEN h + (IF heightChange < MAX_PER_TICK_CONTAINER_EXPANSION
                                  THEN heightChange
                                  ELSE MAX_PER_TICK_CONTAINER_EXPANSION)
                        ELSE PARTICLE_CONTAINER_INITIAL_HEIGHT
                   ELSE IF h - heightChange >= m.minAllowableContainerHeight
                        THEN h + (IF heightChange > 0 - MAX_PER_TICK_CONTAINER_SHRINKAGE
                                  THEN heightChange
                                  ELSE 0 - MAX_PER_TICK_CONTAINER_SHRINKAGE)
                        ELSE m.minAllowableContainerHeight]
        ELSE IF m.heightChangeCounter > 0
             THEN [m EXCEPT !.heightChangeCounter = @ - 1]
             ELSE m

\* The first part of step() with a growing container never held at
\* PARTICLE_CONTAINER_INITIAL_HEIGHT.
AdjustContainerHeight_NoCeiling(m) ==
    LET h == m.particleContainerHeight
        heightChange == m.targetContainerHeight - h
    IN  IF ~m.isExploded
        THEN IF m.targetContainerHeight # h
             THEN [m EXCEPT
                    !.heightChangeCounter = CONTAINER_SIZE_CHANGE_RESET_COUNT,
                    !.particleContainerHeight =
                        IF heightChange > 0
                        THEN h + (IF heightChange < MAX_PER_TICK_CONTAINER_EXPANSION
                                  THEN heightChange
                                  ELSE MAX_PER_TICK_CONTAINER_EXPANSION)
                        ELSE IF h - heightChange >= m.minAllowableContainerHeight
                             THEN h + (IF heightChange > 0 - MAX_PER_TICK_CONTAINER_SHRINKAGE
                                       THEN heightChange
                                       ELSE 0 - MAX_PER_TICK_CONTAINER_SHRINKAGE)
                             ELSE m.minAllowableContainerHeight]
             ELSE IF m.heightChangeCounter > 0
                  THEN [m EXCEPT !.heightChangeCounter = @ - 1]
                  ELSE m
        ELSE IF h < PARTICLE_CONTAINER_INITIAL_HEIGHT * 10
             THEN [m EXCEPT !.particleContainerHeight = h + MAX_PER_TICK_CONTAINER_EXPANSION]
             ELSE m

\* The first part of step() with the countdown running on while the
\* container is exploded.
AdjustContainerHeight_CountsDownWhenExploded(m) ==
    LET h == m.particleContainerHeight
        heightChange == m.targetContainerHeight - h
        counted == IF m.heightChangeCounter > 0
                   THEN [m EXCEPT !.heightChangeCounter = @ - 1]
                   ELSE m
    IN  IF ~m.isExploded
        THEN IF m.targetContainerHeight # h
             THEN [m EXCEPT
                    !.heightChangeCounter = CONTAINER_SIZE_CHANGE_RESET_COUNT,
                    !.particleContainerHeight =
                        IF heightChange > 0
                        THEN IF h + heightChange <= PARTICLE_CONTAINER_INITIAL_HEIGHT
                             THEN h + (IF heightChange < MAX_PER_TICK_CONTAINER_EXPANSION
                                       THEN heightChange
                                       ELSE MAX_PER_TICK_CONTAINER_EXPANSION)
                             ELSE PARTICLE_CONTAINER_INITIAL_HEIGHT
                        ELSE IF h - heightChange >= m.minAllowableContainerHeight
                             THEN h + (IF heightChange > 0 - MAX_PER_TICK_CONTAINER_SHRINKAGE
                                       THEN heightChange
                                       ELSE 0 - MAX_PER_TICK_CONTAINER_SHRINKAGE)
                             ELSE m.minAllowableContainerHeight]
             ELSE counted
        ELSE IF h < PARTICLE_CONTAINER_INITIAL_HEIGHT * 10
             THEN [counted EXCEPT !.particleContainerHeight = h + MAX_PER_TICK_CONTAINER_EXPANSION]
             ELSE counted

\* The first part of step() changing the height by the whole of
\* MAX_PER_TICK_CONTAINER_EXPANSION or MAX_PER_TICK_CONTAINER_SHRINKAGE, however
\* near the target is.
AdjustContainerHeight_WholeStepsOnly(m) ==
    LET h == m.particleContainerHeight
        heightChange == m.targetContainerHeight - h
    IN  IF ~m.isExploded
        THEN IF m.targetContainerHeight # h
             THEN [m EXCEPT
                    !.heightChangeCounter = CONTAINER_SIZE_CHANGE_RESET_COUNT,
                    !.particleContainerHeight =
                        IF heightChange > 0
                        THEN IF h + heightChange <= PARTICLE_CONTAINER_INITIAL_HEIGHT
                             THEN h + MAX_PER_TICK_CONTAINER_EXPANSION
                             ELSE PARTICLE_CONTAINER_INITIAL_HEIGHT
                        ELSE IF h - heightChange >= m.minAllowableContainerHeight
                             THEN h - MAX_PER_TICK_CONTAINER_SHRINKAGE
                             ELSE m.minAllowableContainerHeight]
             ELSE IF m.heightChangeCounter > 0
                  THEN [m EXCEPT !.heightChangeCounter = @ - 1]
                  ELSE m
        ELSE IF h < PARTICLE_CONTAINER_INITIAL_HEIGHT * 10
             THEN [m EXCEPT !.particleContainerHeight = h + MAX_PER_TICK_CONTAINER_EXPANSION]
             ELSE m

\* The first part of step(): the height of the container.
AdjustContainerHeight(m) ==
    LET h == m.particleContainerHeight
        heightChange == m.targetContainerHeight - h
    IN  IF ~m.isExploded
        THEN IF m.targetContainerHeight # h
             THEN [m EXCEPT
                    !.heightChangeCounter = CONTAINER_SIZE_CHANGE_RESET_COUNT,
                    !.particleContainerHeight =
                        IF heightChange > 0
                        THEN IF h + heightChange <= PARTICLE_CONTAINER_INITIAL_HEIGHT
                             THEN h + (IF heightChange < MAX_PER_TICK_CONTAINER_EXPANSION
                                       THEN heightChange
                                       ELSE MAX_PER_TICK_CONTAINER_EXPANSION)
                             ELSE PARTICLE_CONTAINER_INITIAL_HEIGHT
                        ELSE IF h - heightChange >= m.minAllowableContainerHeight
                             THEN h + (IF heightChange > 0 - MAX_PER_TICK_CONTAINER_SHRINKAGE
                                       THEN heightChange
                                       ELSE 0 - MAX_PER_TICK_CONTAINER_SHRINKAGE)
                             ELSE m.minAllowableContainerHeight]
             ELSE IF m.heightChangeCounter > 0
                  THEN [m EXCEPT !.heightChangeCounter = @ - 1]
                  ELSE m
        ELSE IF h < PARTICLE_CONTAINER_INITIAL_HEIGHT * 10
             THEN [m EXCEPT !.particleContainerHeight = h + MAX_PER_TICK_CONTAINER_EXPANSION]
             ELSE m

\* The last part of step() with the slow-down near absolute zero applied
\* to heating as well as to cooling.
AdjustTemperature_SlowsDownHeating(m) ==
    LET ticks == m.tempAdjustTickCounter + 1
        sum == m.temperatureSetPoint + m.heatingCoolingAmount
        lowest == minModelTemperature(m.currentMolecule)
        newTemperature ==
            IF sum >= MAX_TEMPERATURE THEN MAX_TEMPERATURE
            ELSE IF 10 * sum <= 9 * SOLID_TEMPERATURE
                 THEN Round(m.temperatureSetPoint * 95, 100)
                 ELSE IF sum * lowest.den <= lowest.num
                      THEN Round(lowest.num, lowest.den)
                      ELSE sum
    IN  IF ticks > TICKS_PER_TEMP_ADJUSTMENT /\ m.heatingCoolingAmount # 0
        THEN [m EXCEPT !.tempAdjustTickCounter = 0,
                       !.temperatureSetPoint = newTemperature,
                       !.isoKineticTargetTemperature = newTemperature,
                       !.andersenTargetTemperature = newTemperature]
        ELSE [m EXCEPT !.tempAdjustTickCounter = ticks]

\* The last part of step() with the set point halved, rather than lowered
\* by a twentieth, near absolute zero.
AdjustTemperature_HalvesWhenCold(m) ==
    LET ticks == m.tempAdjustTickCounter + 1
        sum == m.temperatureSetPoint + m.heatingCoolingAmount
        lowest == minModelTemperature(m.currentMolecule)
        newTemperature ==
            IF sum >= MAX_TEMPERATURE THEN MAX_TEMPERATURE
            ELSE IF 10 * sum <= 9 * SOLID_TEMPERATURE /\ m.heatingCoolingAmount < 0
                 THEN Round(m.temperatureSetPoint * 50, 100)
                 ELSE IF sum * lowest.den <= lowest.num
                      THEN Round(lowest.num, lowest.den)
                      ELSE sum
    IN  IF ticks > TICKS_PER_TEMP_ADJUSTMENT /\ m.heatingCoolingAmount # 0
        THEN [m EXCEPT !.tempAdjustTickCounter = 0,
                       !.temperatureSetPoint = newTemperature,
                       !.isoKineticTargetTemperature = newTemperature,
                       !.andersenTargetTemperature = newTemperature]
        ELSE [m EXCEPT !.tempAdjustTickCounter = ticks]

\* The last part of step() adjusting the set point twice as often.
AdjustTemperature_TwiceAsOften(m) ==
    LET ticks == m.tempAdjustTickCounter + 1
        sum == m.temperatureSetPoint + m.heatingCoolingAmount
        lowest == minModelTemperature(m.currentMolecule)
        newTemperature ==
            IF sum >= MAX_TEMPERATURE THEN MAX_TEMPERATURE
            ELSE IF 10 * sum <= 9 * SOLID_TEMPERATURE /\ m.heatingCoolingAmount < 0
                 THEN Round(m.temperatureSetPoint * 95, 100)
                 ELSE IF sum * lowest.den <= lowest.num
                      THEN Round(lowest.num, lowest.den)
                      ELSE sum
    IN  IF 2 * ticks > TICKS_PER_TEMP_ADJUSTMENT /\ m.heatingCoolingAmount # 0
        THEN [m EXCEPT !.tempAdjustTickCounter = 0,
                       !.temperatureSetPoint = newTemperature,
                       !.isoKineticTargetTemperature = newTemperature,
                       !.andersenTargetTemperature = newTemperature]
        ELSE [m EXCEPT !.tempAdjustTickCounter = ticks]

\* The last part of step(): the temperature set point.
AdjustTemperature(m) ==
    LET ticks == m.tempAdjustTickCounter + 1
        sum == m.temperatureSetPoint + m.heatingCoolingAmount
        lowest == minModelTemperature(m.currentMolecule)
        newTemperature ==
            IF sum >= MAX_TEMPERATURE THEN MAX_TEMPERATURE
            ELSE IF 10 * sum <= 9 * SOLID_TEMPERATURE /\ m.heatingCoolingAmount < 0
                 THEN Round(m.temperatureSetPoint * 95, 100)
                 ELSE IF sum * lowest.den <= lowest.num
                      THEN Round(lowest.num, lowest.den)
                      ELSE sum
    IN  IF ticks > TICKS_PER_TEMP_ADJUSTMENT /\ m.heatingCoolingAmount # 0
        THEN [m EXCEPT !.tempAdjustTickCounter = 0,
                       !.temperatureSetPoint = newTemperature,
                       !.isoKineticTargetTemperature = newTemperature,
                       !.andersenTargetTemperature = newTemperature]
        ELSE [m EXCEPT !.tempAdjustTickCounter = ticks]

\* step( dt )
step(m, integration) ==
    AdjustTemperature(
        VerletCalculations(AdjustContainerHeight(m),
                           VERLET_CALCULATIONS_PER_CLOCK_TICK, integration))

\* ------------------------------------------------------------------------
\* AbstractPhaseStateChanger
\*
\* Lengths and positions are in tenths of a particle diameter here.
\* ------------------------------------------------------------------------

MIN_INITIAL_PARTICLE_TO_WALL_DISTANCE == 25

\* minInitialInterParticleDistance: 1.2 for one atom per molecule, 1.5
\* otherwise.
minInitialInterParticleDistance(ds) == IF ds.atomsPerMolecule = 1 THEN 12 ELSE 15

\* What findOpenMoleculeLocation returns when it finds no position.
null == <<"null">>

\* The test of a position with > in place of >=: a molecule exactly the
\* minimum distance away takes the position.
PositionAvailable_BeyondTheDistance(ds, pos) ==
    \A k \in 0 .. (getNumberOfMolecules(ds) - 1) :
        DistanceSquared(ds.moleculeCenterOfMassPositions[k], pos)
            > minInitialInterParticleDistance(ds) * minInitialInterParticleDistance(ds)

\* positionAvailable after the loop over k: no molecule is nearer to pos
\* than minInitialInterParticleDistance.
PositionAvailable(ds, pos) ==
    \A k \in 0 .. (getNumberOfMolecules(ds) - 1) :
        ~(DistanceSquared(ds.moleculeCenterOfMassPositions[k], pos)
              < minInitialInterParticleDistance(ds) * minInitialInterParticleDistance(ds))

\* The loops over i and j from ( i, j ) on: i < rangeX / d and j < rangeY / d
\* are i * d < rangeX and j * d < rangeY.
RECURSIVE ScanFrom(_, _, _, _, _)
ScanFrom(ds, rangeX, rangeY, i, j) ==
    LET d == minInitialInterParticleDistance(ds)
        pos == << MIN_INITIAL_PARTICLE_TO_WALL_DISTANCE + i * d,
                  MIN_INITIAL_PARTICLE_TO_WALL_DISTANCE + j * d >>
    IN  IF ~(i * d < rangeX) THEN null
        ELSE IF ~(j * d < rangeY) THEN ScanFrom(ds, rangeX, rangeY, i + 1, 0)
             ELSE IF PositionAvailable(ds, pos) THEN pos
                  ELSE ScanFrom(ds, rangeX, rangeY, i, j + 1)

\* findOpenMoleculeLocation(), for the dataset of the model and its
\* normalizedContainerWidth and normalizedContainerHeight.
findOpenMoleculeLocation(ds, width, height) ==
    ScanFrom(ds, width - 2 * MIN_INITIAL_PARTICLE_TO_WALL_DISTANCE,
             height - 2 * MIN_INITIAL_PARTICLE_TO_WALL_DISTANCE, 0, 0)

\* ------------------------------------------------------------------------
\* State
\* ------------------------------------------------------------------------

VARIABLES
    moleculeDataSet,   \* MultipleParticleModel.moleculeDataSet
    op,                \* the operation that ran last
    arg,               \* its argument, where it has one
    added,             \* what addMolecule returned, when it ran last
    kineticTemperature,\* what calculateTemperatureFromKineticEnergy returned, when it ran last
    addCalls,          \* addMolecule calls so far, while nothing else has changed the counts
    onlyAdds,          \* TRUE until removeMolecule is first called
    \* fields of MultipleParticleModel
    currentMolecule,
    isExploded,
    temperatureSetPoint,
    heatingCoolingAmount,
    tempAdjustTickCounter,
    thermostatType,
    heightChangeCounter,
    particleContainerHeight,
    targetContainerHeight,
    minAllowableContainerHeight,
    gravitationalAcceleration,
    pressure,                    \* moleculeForceAndMotionCalculator.pressure
    temperature,                 \* moleculeForceAndMotionCalculator.temperature
    isoKineticTargetTemperature, \* isoKineticThermostat.targetTemperature
    andersenTargetTemperature,   \* andersenThermostat.targetTemperature
    thermostatRun,     \* the thermostats runThermostat ran when it was last called
    raised,            \* the operation that ran last threw
    stepsTaken,        \* step() calls so far
    ticksSinceAdjustment, \* in CadenceSpec: step() calls since step() last adjusted the set point
    ticksSinceActive,  \* in CadenceSpec: step() calls since the heating or cooling now asked for began
    wallForce,         \* the last call of calculateWallForce made on its own
    openLocation       \* the last call of findOpenMoleculeLocation made on its own

dataVars == <<moleculeDataSet, op, arg, added, kineticTemperature, addCalls, onlyAdds>>

modelVars ==
    <<currentMolecule, isExploded, temperatureSetPoint, heatingCoolingAmount,
      tempAdjustTickCounter, thermostatType, heightChangeCounter,
      particleContainerHeight, targetContainerHeight, minAllowableContainerHeight,
      gravitationalAcceleration, pressure, temperature, isoKineticTargetTemperature,
      andersenTargetTemperature, thermostatRun, raised, stepsTaken,
      ticksSinceAdjustment, ticksSinceActive, wallForce, openLocation>>

vars == <<dataVars, modelVars>>

NoArg == 0 - 99

\* ticksSinceAdjustment while step() has not adjusted the set point yet;
\* ticksSinceActive while no heating or cooling is asked for, and once the
\* heating or cooling asked for has had its first adjustment.
NoTicks == 0 - 1

\* wallForce while calculateWallForce has not been called on its own.
NoWallForce ==
    [ position |-> <<0, 0>>,
      isExploded |-> FALSE,
      containerWidth |-> Frac(0, 1),
      containerHeight |-> Frac(0, 1),
      resultantForce |-> <<NotSet, NotSet>>,
      potentialEnergy |-> <<>> ]

\* openLocation while findOpenMoleculeLocation has not been called on its own.
NoOpenLocation == [ width |-> 0, height |-> 0, result |-> null ]

\* The model is the record m, its dataset apart.
ModelIs(m) ==
    /\ currentMolecule = m.currentMolecule
    /\ isExploded = m.isExploded
    /\ temperatureSetPoint = m.temperatureSetPoint
    /\ heatingCoolingAmount = m.heatingCoolingAmount
    /\ tempAdjustTickCounter = m.tempAdjustTickCounter
    /\ thermostatType = m.thermostatType
    /\ heightChangeCounter = m.heightChangeCounter
    /\ particleContainerHeight = m.particleContainerHeight
    /\ targetContainerHeight = m.targetContainerHeight
    /\ minAllowableContainerHeight = m.minAllowableContainerHeight
    /\ gravitationalAcceleration = m.gravitationalAcceleration
    /\ pressure = m.pressure
    /\ temperature = m.temperature
    /\ isoKineticTargetTemperature = m.isoKineticTargetTemperature
    /\ andersenTargetTemperature = m.andersenTargetTemperature
    /\ thermostatRun = m.thermostatRun
    /\ stepsTaken = 0
    /\ ticksSinceAdjustment = NoTicks
    /\ ticksSinceActive = NoTicks
    /\ raised = FALSE
    /\ wallForce = NoWallForce
    /\ openLocation = NoOpenLocation

\* ------------------------------------------------------------------------
\* The dataset driven by its own operations
\* ------------------------------------------------------------------------

DataInit ==
    /\ \E apm \in AtomsPerMoleculeValues :
           moleculeDataSet = MoleculeForceAndMotionDataSet(apm)
    /\ op = "new"
    /\ arg = NoArg
    /\ added = FALSE
    /\ kineticTemperature = Frac(0, 1)
    /\ addCalls = 0
    /\ onlyAdds = TRUE
    /\ ModelIs(MultipleParticleModel)

\* addMolecule( atomPositions, com, velocity, rotationRate ) with a molecule
\* drawn from inputs, called while the dataset holds no more than limit atoms
\* afterwards.
AddMoleculeAmong(limit, inputs) ==
    /\ moleculeDataSet.numberOfAtoms + moleculeDataSet.atomsPerMolecule <= limit
    /\ \E m \in inputs :
         LET r == addMolecule(moleculeDataSet,
                              AtomPositionsFor(m.com, moleculeDataSet.atomsPerMolecule),
                              m.com, m.vel, m.rate)
         IN  /\ moleculeDataSet' = r.ds
             /\ added' = r.ret
    /\ op' = "addMolecule"
    /\ arg' = NoArg
    /\ addCalls' = IF onlyAdds /\ addCalls <= MaxMolecules THEN addCalls + 1 ELSE addCalls
    /\ kineticTemperature' = Frac(0, 1)
    /\ UNCHANGED onlyAdds
    /\ UNCHANGED modelVars

\* addMolecule( atomPositions, com, velocity, rotationRate ), called while
\* the dataset holds fewer than limit atoms afterwards.
AddMoleculeWithin(limit) == AddMoleculeAmong(limit, MoleculeInputs)

AddMolecule == AddMoleculeWithin(MAX_NUM_ATOMS + MaxOverflow)

\* Indices handed to removeMolecule: negative, in range and too large.
RemoveIndices == (0 - 1) .. MAX_NUM_ATOMS

\* removeMolecule( moleculeIndex ) for an index drawn from indices
RemoveMoleculeAmong(indices) ==
    /\ \E k \in indices :
         /\ moleculeDataSet' = removeMolecule(moleculeDataSet, k)
         /\ arg' = k
    /\ op' = "removeMolecule"
    /\ onlyAdds' = FALSE
    /\ addCalls' = 0
    /\ added' = FALSE
    /\ kineticTemperature' = Frac(0, 1)
    /\ UNCHANGED modelVars

RemoveMolecule == RemoveMoleculeAmong(RemoveIndices)

\* updateMoleculeSafety()
UpdateMoleculeSafety ==
    /\ moleculeDataSet' = updateMoleculeSafety(moleculeDataSet)
    /\ op' = "updateMoleculeSafety"
    /\ arg' = NoArg
    /\ added' = FALSE
    /\ kineticTemperature' = Frac(0, 1)
    /\ UNCHANGED <<addCalls, onlyAdds>>
    /\ UNCHANGED modelVars

\* calculateTemperatureFromKineticEnergy()
CalculateTemperatureFromKineticEnergy ==
    /\ kineticTemperature' = calculateTemperatureFromKineticEnergy(moleculeDataSet)
    /\ op' = "calculateTemperatureFromKineticEnergy"
    /\ arg' = NoArg
    /\ added' = FALSE
    /\ UNCHANGED <<moleculeDataSet, addCalls, onlyAdds>>
    /\ UNCHANGED modelVars

\* One sub-step of step(): updateForcesAndMotion()
UpdateForcesAndMotion ==
    /\ moleculeDataSet' = updateForcesAndMotion(moleculeDataSet)
    /\ op' = "updateForcesAndMotion"
    /\ arg' = NoArg
    /\ added' = FALSE
    /\ kineticTemperature' = Frac(0, 1)
    /\ UNCHANGED <<addCalls, onlyAdds>>
    /\ UNCHANGED modelVars

DataNext ==
    \/ AddMolecule
    \/ RemoveMolecule
    \/ UpdateMoleculeSafety
    \/ CalculateTemperatureFromKineticEnergy

DataSpec == DataInit /\ [][DataNext]_vars

\* ------------------------------------------------------------------------
\* The dataset driven by its operations and by the sub-steps of step()
\* ------------------------------------------------------------------------

StepAddMolecule ==
    AddMoleculeWithin(MaxStepMolecules * moleculeDataSet.atomsPerMolecule)

\* removeMolecule with the indices its callers pass: none below 0.
StepRemoveMolecule == RemoveMoleculeAmong(0 .. MaxStepMolecules)

DataStepNext ==
    \/ StepAddMolecule
    \/ StepRemoveMolecule
    \/ UpdateMoleculeSafety
    \/ UpdateForcesAndMotion

DataStepSpec == DataInit /\ [][DataStepNext]_vars

\* ------------------------------------------------------------------------
\* The dataset filled with molecules and swept by updateMoleculeSafety
\* ------------------------------------------------------------------------

\* How many molecules the dataset is given before updateMoleculeSafety runs
\* on it.
MaxSafetyMolecules == 3

\* Molecules handed to addMolecule, told apart by their velocities: two on
\* the same spot, one exactly SAFE_INTER_MOLECULE_DISTANCE away from them
\* and one closer than that to the third and farther from the first two.
SafetyInputs ==
    { [com |-> <<0, 0>>, vel |-> <<0, 0>>, rate |-> <<0>>],
      [com |-> <<0, 0>>, vel |-> <<0, 1>>, rate |-> <<1>>],
      [com |-> <<2, 0>>, vel |-> <<1, 0>>, rate |-> <<2>>],
      [com |-> <<3, 0>>, vel |-> <<1, 1>>, rate |-> <<3>>] }

SafetyAddMolecule ==
    AddMoleculeAmong(MaxSafetyMolecules * moleculeDataSet.atomsPerMolecule, SafetyInputs)

SafetyNext ==
    \/ SafetyAddMolecule
    \/ UpdateMoleculeSafety
    \/ UpdateForcesAndMotion

SafetySpec == DataInit /\ [][SafetyNext]_vars

\* ------------------------------------------------------------------------
\* The search for an open location, called on its own
\* ------------------------------------------------------------------------

\* How many molecules the dataset holds in LocationSpec.
MaxLocationMolecules == 2

\* Molecules placed before the search, in tenths of a particle diameter: on
\* the first position of the grid, between four positions, and at 1.2 and
\* 1.5 from the first position.
LocationInputs ==
    { [com |-> <<25, 25>>, vel |-> <<0, 0>>, rate |-> <<0>>],
      [com |-> <<31, 31>>, vel |-> <<0, 0>>, rate |-> <<0>>],
      [com |-> <<37, 25>>, vel |-> <<0, 0>>, rate |-> <<0>>],
      [com |-> <<40, 25>>, vel |-> <<0, 0>>, rate |-> <<0>>] }

\* Container sizes for the search: too small for any position, room for one
\* position, room for several.
LocationSizes == {40, 62, 80}

LocationAddMolecule ==
    AddMoleculeAmong(MaxLocationMolecules * moleculeDataSet.atomsPerMolecule, LocationInputs)

\* findOpenMoleculeLocation()
FindOpenMoleculeLocation ==
    /\ \E width \in LocationSizes, height \in LocationSizes :
         openLocation' = [ width |-> width, height |-> height,
                           result |-> findOpenMoleculeLocation(moleculeDataSet, width, height) ]
    /\ op' = "findOpenMoleculeLocation"
    /\ arg' = NoArg
    /\ UNCHANGED <<moleculeDataSet, added, kineticTemperature, addCalls, onlyAdds,
                   currentMolecule, isExploded, temperatureSetPoint, heatingCoolingAmount,
                   tempAdjustTickCounter, thermostatType, heightChangeCounter,
                   particleContainerHeight, targetContainerHeight,
                   minAllowableContainerHeight, gravitationalAcceleration, pressure,
                   temperature, isoKineticTargetTemperature, andersenTargetTemperature,
                   thermostatRun, raised, stepsTaken, ticksSinceAdjustment,
                   ticksSinceActive, wallForce>>

LocationNext ==
    \/ LocationAddMolecule
    \/ FindOpenMoleculeLocation

LocationSpec == DataInit /\ [][LocationNext]_vars

\* ------------------------------------------------------------------------
\* The model driven by its public operations
\* ------------------------------------------------------------------------

\* How many times step() runs in a behaviour.
MaxSteps == 3

\* The model as a record of its fields.
Model ==
    [ currentMolecule |-> currentMolecule,
      isExploded |-> isExploded,
      temperatureSetPoint |-> temperatureSetPoint,
      heatingCoolingAmount |-> heatingCoolingAmount,
      tempAdjustTickCounter |-> tempAdjustTickCounter,
      thermostatType |-> thermostatType,
      heightChangeCounter |-> heightChangeCounter,
      particleContainerHeight |-> particleContainerHeight,
      targetContainerHeight |-> targetContainerHeight,
      minAllowableContainerHeight |-> minAllowableContainerHeight,
      gravitationalAcceleration |-> gravitationalAcceleration,
      moleculeDataSet |-> moleculeDataSet,
      pressure |-> pressure,
      temperature |-> temperature,
      isoKineticTargetTemperature |-> isoKineticTargetTemperature,
      andersenTargetTemperature |-> andersenTargetTemperature,
      thermostatRun |-> thermostatRun ]

\* The operation leaves the fields of the model as the record m has them.
FieldsBecome(m) ==
    /\ currentMolecule' = m.currentMolecule
    /\ isExploded' = m.isExploded
    /\ temperatureSetPoint' = m.temperatureSetPoint
    /\ heatingCoolingAmount' = m.heatingCoolingAmount
    /\ tempAdjustTickCounter' = m.tempAdjustTickCounter
    /\ thermostatType' = m.thermostatType
    /\ heightChangeCounter' = m.heightChangeCounter
    /\ particleContainerHeight' = m.particleContainerHeight
    /\ targetContainerHeight' = m.targetContainerHeight
    /\ minAllowableContainerHeight' = m.minAllowableContainerHeight
    /\ gravitationalAcceleration' = m.gravitationalAcceleration
    /\ moleculeDataSet' = m.moleculeDataSet
    /\ pressure' = m.pressure
    /\ temperature' = m.temperature
    /\ isoKineticTargetTemperature' = m.isoKineticTargetTemperature
    /\ andersenTargetTemperature' = m.andersenTargetTemperature
    /\ thermostatRun' = m.thermostatRun

\* The operation leaves the model as the record m.
Becomes(m) ==
    /\ FieldsBecome(m)
    /\ UNCHANGED <<ticksSinceAdjustment, ticksSinceActive>>

\* The operation leaves the model as the record m, and the step() calls are
\* counted: ticks is 1 when the operation is step(), 0 otherwise.  An
\* adjustment of the set point by step() is known by tempAdjustTickCounter,
\* which step() has incremented unless it has adjusted, being 0.
BecomesAfter(m, ticks) ==
    /\ FieldsBecome(m)
    /\ ticksSinceAdjustment' =
           IF ticks = 1 /\ m.tempAdjustTickCounter = 0 THEN 0
           ELSE IF ticksSinceAdjustment = NoTicks THEN NoTicks
                ELSE ticksSinceAdjustment + ticks
    /\ ticksSinceActive' =
           IF m.heatingCoolingAmount = 0 \/ (ticks = 1 /\ m.tempAdjustTickCounter = 0)
           THEN NoTicks
           ELSE IF heatingCoolingAmount = 0 THEN 0
                ELSE IF ticksSinceActive = NoTicks THEN NoTicks
                     ELSE ticksSinceActive + ticks

\* The operation op_ ran with argument arg_ and returned.
Returned(op_, arg_) ==
    /\ op' = op_
    /\ arg' = arg_
    /\ raised' = FALSE
    /\ UNCHANGED <<added, kineticTemperature, addCalls, onlyAdds, wallForce,
                             openLocation>>

\* The operation op_ ran with argument arg_ and threw before it changed
\* anything.
Threw(op_, arg_) ==
    /\ op' = op_
    /\ arg' = arg_
    /\ raised' = TRUE
    /\ UNCHANGED <<moleculeDataSet, added, kineticTemperature, addCalls, onlyAdds,
                   currentMolecule, isExploded, temperatureSetPoint,
                   heatingCoolingAmount, tempAdjustTickCounter, thermostatType,
                   heightChangeCounter, particleContainerHeight, targetContainerHeight,
                   minAllowableContainerHeight, gravitationalAcceleration, pressure,
                   temperature, isoKineticTargetTemperature, andersenTargetTemperature,
                   thermostatRun, ticksSinceAdjustment, ticksSinceActive, wallForce,
                   openLocation>>

\* Results of the integration of a tick: a molecule at rest inside the
\* container with a large force on the walls, one moving below the lid, and
\* one that has crossed the floor.
Integrations ==
    { Integration(<<2, 0>>, <<0, 0>>, 109000),
      Integration(<<2, 2>>, <<1, 0>>, 0),
      Integration(<<2, 0 - 1>>, <<1, 0>>, 0) }

TemperatureInputs == {600000}

HeatingCoolingInputs == {0, 1}

ContainerHeightInputs == {950, 1000}

ThermostatTypeInputs == {ISOKINETIC_THERMOSTAT, 4}

MoleculeTypeInputs == {NEON, ARGON, 0}

PhaseInputs == {PHASE_GAS}

Init ==
    /\ moleculeDataSet = MultipleParticleModel.moleculeDataSet
    /\ ModelIs(MultipleParticleModel)
    /\ op = "new"
    /\ arg = NoArg
    /\ added = FALSE
    /\ kineticTemperature = Frac(0, 1)
    /\ addCalls = 0
    /\ onlyAdds = TRUE

\* step( dt ), at most limit times in a behaviour, with what the integration
\* yields drawn from integrations.
StepAmong(limit, integrations) ==
    /\ stepsTaken < limit
    /\ \E integration \in integrations : Becomes(step(Model, integration))
    /\ stepsTaken' = stepsTaken + 1
    /\ Returned("step", NoArg)

\* step( dt )
Step == StepAmong(MaxSteps, Integrations)

\* setTemperature( newTemperature ), with the temperature drawn from
\* temperatures.
SetTemperatureAmong(temperatures) ==
    /\ \E newTemperature \in temperatures :
         /\ Becomes(setTemperature(Model, newTemperature))
         /\ Returned("setTemperature", newTemperature)
    /\ UNCHANGED stepsTaken

\* setTemperature( newTemperature )
SetTemperature == SetTemperatureAmong(TemperatureInputs)

\* setPhase( state )
SetPhase ==
    /\ \E state \in PhaseInputs :
         /\ Becomes(setPhase(Model, state))
         /\ Returned("setPhase", state)
    /\ UNCHANGED stepsTaken

\* setHeatingCoolingAmount( normalizedHeatingCoolingAmount )
SetHeatingCoolingAmount ==
    /\ \E amount \in HeatingCoolingInputs :
         /\ Becomes(setHeatingCoolingAmount(Model, amount))
         /\ Returned("setHeatingCoolingAmount", amount)
    /\ UNCHANGED stepsTaken

\* setTargetParticleContainerHeight( desiredContainerHeight ), with the
\* height drawn from heights.
SetTargetParticleContainerHeightAmong(heights) ==
    /\ \E desiredContainerHeight \in heights :
         /\ Becomes(setTargetParticleContainerHeight(Model, desiredContainerHeight))
         /\ Returned("setTargetParticleContainerHeight", desiredContainerHeight)
    /\ UNCHANGED stepsTaken

\* setTargetParticleContainerHeight( desiredContainerHeight )
SetTargetParticleContainerHeight ==
    SetTargetParticleContainerHeightAmong(ContainerHeightInputs)

\* setThermostatType( type ), with the type drawn from types: throws for a
\* type that is none of the four.
SetThermostatTypeAmong(types) ==
    /\ \E type \in types :
         IF type \in {NO_THERMOSTAT, ISOKINETIC_THERMOSTAT, ANDERSEN_THERMOSTAT,
                      ADAPTIVE_THERMOSTAT}
         THEN /\ Becomes(setThermostatType(Model, type))
              /\ Returned("setThermostatType", type)
         ELSE Threw("setThermostatType", type)
    /\ UNCHANGED stepsTaken

\* setThermostatType( type )
SetThermostatType == SetThermostatTypeAmong(ThermostatTypeInputs)

\* setMoleculeType( moleculeID ) going on with NEON after it has thrown for an
\* unsupported identifier.
SetMoleculeType_GoesOnWithNeon ==
    /\ \E moleculeID \in MoleculeTypeInputs :
         IF moleculeID \in SupportedMolecules
         THEN /\ Becomes(setMoleculeType(Model, moleculeID))
              /\ Returned("setMoleculeType", moleculeID)
         ELSE /\ Becomes(setMoleculeType(Model, NEON))
              /\ op' = "setMoleculeType"
              /\ arg' = moleculeID
              /\ raised' = TRUE
              /\ UNCHANGED <<added, kineticTemperature, addCalls, onlyAdds, wallForce,
                             openLocation>>
    /\ UNCHANGED stepsTaken

\* setMoleculeType( moleculeID ): throws for an unsupported identifier.
SetMoleculeType ==
    /\ \E moleculeID \in MoleculeTypeInputs :
         IF moleculeID \in SupportedMolecules
         THEN /\ Becomes(setMoleculeType(Model, moleculeID))
              /\ Returned("setMoleculeType", moleculeID)
         ELSE Threw("setMoleculeType", moleculeID)
    /\ UNCHANGED stepsTaken

\* reset()
Reset ==
    /\ Becomes(reset(Model))
    /\ Returned("reset", NoArg)
    /\ UNCHANGED stepsTaken

Next ==
    \/ Step
    \/ SetTemperature
    \/ SetPhase
    \/ SetHeatingCoolingAmount
    \/ SetTargetParticleContainerHeight
    \/ SetThermostatType
    \/ SetMoleculeType
    \/ Reset

Spec == Init /\ [][Next]_vars

\* ------------------------------------------------------------------------
\* The calculator's wall force and pressure, called on their own
\* ------------------------------------------------------------------------

\* Positions handed to calculateWallForce: inside the container, near each
\* wall, and outside each of them.
WallPositions == { <<x, y>> : x \in (0 - 1) .. 6, y \in (0 - 1) .. 5 }

\* Wall force sums handed to updatePressure: none, one that takes the
\* pressure above EXPLOSION_PRESSURE in three calls, and one that takes it
\* there at once.
WallForceSums == {0, 400000, 1000000}

\* calculateWallForce( position, normalizedContainerWidth,
\* normalizedContainerHeight, resultantForce ) for a resultantForce of zero
CalculateWallForce ==
    /\ \E position \in WallPositions :
         LET r == calculateWallForce(position, normalizedContainerWidth(Model),
                                     normalizedContainerHeight(Model), isExploded,
                                     normalizedContainerWidth(Model))
         IN  /\ isExploded' = r.isExploded
             /\ wallForce' = [ position |-> position,
                               isExploded |-> isExploded,
                               containerWidth |-> normalizedContainerWidth(Model),
                               containerHeight |-> normalizedContainerHeight(Model),
                               resultantForce |-> r.resultantForce,
                               potentialEnergy |-> r.potentialEnergy ]
    /\ op' = "calculateWallForce"
    /\ arg' = NoArg
    /\ raised' = FALSE
    /\ UNCHANGED <<moleculeDataSet, added, kineticTemperature, addCalls, onlyAdds,
                   currentMolecule, temperatureSetPoint, heatingCoolingAmount,
                   tempAdjustTickCounter, thermostatType, heightChangeCounter,
                   particleContainerHeight, targetContainerHeight,
                   minAllowableContainerHeight, gravitationalAcceleration, pressure,
                   temperature, isoKineticTargetTemperature, andersenTargetTemperature,
                   thermostatRun, stepsTaken, ticksSinceAdjustment, ticksSinceActive,
                   openLocation>>

\* updatePressure( pressureZoneWallForce )
UpdatePressure ==
    /\ \E pressureZoneWallForce \in WallForceSums :
         LET r == updatePressure(pressure, isExploded, pressureZoneWallForce,
                                 Frac(PARTICLE_CONTAINER_WIDTH + particleContainerHeight,
                                      particleDiameter(currentMolecule)))
         IN  /\ pressure' = r.pressure
             /\ isExploded' = r.isExploded
             /\ arg' = pressureZoneWallForce
    /\ op' = "updatePressure"
    /\ raised' = FALSE
    /\ UNCHANGED <<moleculeDataSet, added, kineticTemperature, addCalls, onlyAdds,
                   currentMolecule, temperatureSetPoint, heatingCoolingAmount,
                   tempAdjustTickCounter, thermostatType, heightChangeCounter,
                   particleContainerHeight, targetContainerHeight,
                   minAllowableContainerHeight, gravitationalAcceleration,
                   temperature, isoKineticTargetTemperature, andersenTargetTemperature,
                   thermostatRun, stepsTaken, ticksSinceAdjustment, ticksSinceActive,
                   wallForce, openLocation>>

WallNext ==
    \/ CalculateWallForce
    \/ UpdatePressure
    \/ SetMoleculeType

WallSpec == Init /\ [][WallNext]_vars

\* ------------------------------------------------------------------------
\* The height of the container
\* ------------------------------------------------------------------------

\* Heights asked of setTargetParticleContainerHeight: below the minimum,
\* between the minimum and the initial height, and above the initial height.
HeightInputs == {0, 500, 5000}

\* How many times step() runs in a behaviour of HeightSpec: enough for the
\* container to shrink from its initial height to the minimum.
MaxHeightSteps == 20

\* The integration of a tick leaves the molecule moving inside the container.
CalmIntegrations == { Integration(<<2, 2>>, <<1, 0>>, 0) }

HeightStep == StepAmong(MaxHeightSteps, CalmIntegrations)

HeightSetTarget == SetTargetParticleContainerHeightAmong(HeightInputs)

HeightNext ==
    \/ HeightStep
    \/ HeightSetTarget

HeightSpec == Init /\ [][HeightNext]_vars

\* How many times step() runs in a behaviour of GrowthSpec: enough for the
\* exploded container to pass 10 times its initial height.
MaxGrowthSteps == 50

\* The integration of a tick leaves the molecule below the floor.
EscapeIntegrations == { Integration(<<2, 0 - 1>>, <<1, 0>>, 0) }

GrowthStep == StepAmong(MaxGrowthSteps, EscapeIntegrations)

GrowthNext ==
    \/ GrowthStep
    \/ HeightSetTarget

GrowthSpec == Init /\ [][GrowthNext]_vars

\* ------------------------------------------------------------------------
\* The thermostats
\* ------------------------------------------------------------------------

\* How many times step() runs in a behaviour of ThermostatSpec.
MaxThermostatSteps == 2

\* The integration of a tick leaves the molecule at rest, moving, or below
\* the floor.
ThermostatIntegrations ==
    { Integration(<<2, 2>>, <<0, 0>>, 0),
      Integration(<<2, 2>>, <<1, 0>>, 0),
      Integration(<<2, 0 - 1>>, <<1, 0>>, 0) }

ThermostatTypes ==
    {NO_THERMOSTAT, ISOKINETIC_THERMOSTAT, ANDERSEN_THERMOSTAT, ADAPTIVE_THERMOSTAT}

\* A set point above LIQUID_TEMPERATURE, the temperature of the moving
\* molecule.
ThermostatTemperatures == {5000}

\* runThermostat()
RunThermostat ==
    /\ Becomes(runThermostat(Model))
    /\ Returned("runThermostat", NoArg)
    /\ UNCHANGED stepsTaken

ThermostatStep == StepAmong(MaxThermostatSteps, ThermostatIntegrations)

ThermostatSetType == SetThermostatTypeAmong(ThermostatTypes)

ThermostatSetTemperature == SetTemperatureAmong(ThermostatTemperatures)

\* A height for the lid to move to.
ThermostatHeights == {900}

ThermostatSetTarget == SetTargetParticleContainerHeightAmong(ThermostatHeights)

ThermostatNext ==
    \/ RunThermostat
    \/ ThermostatStep
    \/ ThermostatSetType
    \/ ThermostatSetTemperature
    \/ ThermostatSetTarget
    \/ SetHeatingCoolingAmount

ThermostatSpec == Init /\ [][ThermostatNext]_vars

\* ------------------------------------------------------------------------
\* Heating and cooling
\* ------------------------------------------------------------------------

\* How many times step() runs in a behaviour of TemperatureSpec: enough for
\* two adjustments of the set point.
MaxTemperatureSteps == 24

\* Set points asked of setTemperature: one just above the lowest
\* temperature of neon and one just below MAX_TEMPERATURE.
SetPointInputs == {60, 499900}

\* Heating and cooling at full strength.
HeatingCoolingExtremes == {0 - 1, 1}

TemperatureStep == StepAmong(MaxTemperatureSteps, CalmIntegrations)

TemperatureSetPoint == SetTemperatureAmong(SetPointInputs)

\* setHeatingCoolingAmount( normalizedHeatingCoolingAmount )
TemperatureSetHeatingCooling ==
    /\ \E amount \in HeatingCoolingExtremes :
         /\ Becomes(setHeatingCoolingAmount(Model, amount))
         /\ Returned("setHeatingCoolingAmount", amount)
    /\ UNCHANGED stepsTaken

TemperatureNext ==
    \/ TemperatureStep
    \/ TemperatureSetPoint
    \/ TemperatureSetHeatingCooling
    \/ ThermostatSetTarget

TemperatureSpec == Init /\ [][TemperatureNext]_vars

\* ------------------------------------------------------------------------
\* The cadence of heating and cooling
\* ------------------------------------------------------------------------

\* How many times step() runs in a behaviour of CadenceSpec: enough for two
\* adjustments of the set point.
MaxCadenceSteps == 24

\* Heating and cooling asked for in CadenceSpec: full cooling, none, full
\* heating.
CadenceAmounts == {0 - 1, 0, 1}

\* step( dt ), counted
CadenceStep ==
    /\ stepsTaken < MaxCadenceSteps
    /\ \E integration \in CalmIntegrations : BecomesAfter(step(Model, integration), 1)
    /\ stepsTaken' = stepsTaken + 1
    /\ Returned("step", NoArg)

\* setHeatingCoolingAmount( normalizedHeatingCoolingAmount ), with the step()
\* calls counted from it when it starts heating or cooling
CadenceSetHeatingCoolingAmount ==
    /\ \E amount \in CadenceAmounts :
         /\ BecomesAfter(setHeatingCoolingAmount(Model, amount), 0)
         /\ Returned("setHeatingCoolingAmount", amount)
    /\ UNCHANGED stepsTaken

CadenceNext ==
    \/ CadenceStep
    \/ CadenceSetHeatingCoolingAmount

CadenceSpec == Init /\ [][CadenceNext]_vars

\* ------------------------------------------------------------------------
\* The size of an adjustment of the set point
\* ------------------------------------------------------------------------

\* How many times step() runs in a behaviour of AdjustmentSpec: enough for
\* an adjustment of the set point.
MaxAdjustmentSteps == 12

\* Set points asked of setTemperature in AdjustmentSpec: just above the
\* lowest temperature of neon, the highest from which full cooling is slowed
\* down, the first that it is not, and just below MAX_TEMPERATURE.
AdjustmentSetPoints == {60, 1600, 1601, 499900}

\* Heating and cooling asked for in AdjustmentSpec, in tenths: full and a
\* tenth of it, either way.
AdjustmentTenths == {0 - 10, 0 - 1, 1, 10}

AdjustmentStep == StepAmong(MaxAdjustmentSteps, CalmIntegrations)

AdjustmentSetTemperature == SetTemperatureAmong(AdjustmentSetPoints)

\* setHeatingCoolingAmount( normalizedHeatingCoolingAmount )
AdjustmentSetHeatingCoolingAmount ==
    /\ \E tenths \in AdjustmentTenths :
         /\ Becomes(setHeatingCoolingAmountInTenths(Model, tenths))
         /\ Returned("setHeatingCoolingAmount", tenths)
    /\ UNCHANGED stepsTaken

AdjustmentNext ==
    \/ AdjustmentStep
    \/ AdjustmentSetTemperature
    \/ AdjustmentSetHeatingCoolingAmount

AdjustmentSpec == Init /\ [][AdjustmentNext]_vars

\* ------------------------------------------------------------------------
\* Commands of the model, without the clock
\* ------------------------------------------------------------------------

\* Accelerations asked of setGravitationalAcceleration: below 0, the two
\* ends of the range, inside it and above MAX_GRAVITATIONAL_ACCEL.
GravityInputs == {0 - 1, 0, 200, MAX_GRAVITATIONAL_ACCEL, MAX_GRAVITATIONAL_ACCEL + 1}

\* Temperatures asked of setTemperature: below MIN_TEMPERATURE, the two ends
\* of the range, inside it and above MAX_TEMPERATURE.
CommandTemperatures ==
    {0 - 5, 0, MIN_TEMPERATURE, 5000, MAX_TEMPERATURE, MAX_TEMPERATURE + 1}

\* setGravitationalAcceleration( acceleration ) storing the nearer end of
\* the range before it throws for an acceleration out of range.
SetGravitationalAcceleration_StoresLimit ==
    /\ \E acceleration \in GravityInputs :
         IF acceleration > MAX_GRAVITATIONAL_ACCEL \/ acceleration < 0
         THEN /\ Becomes(setGravitationalAcceleration(
                      Model, IF acceleration < 0 THEN 0 ELSE MAX_GRAVITATIONAL_ACCEL))
              /\ op' = "setGravitationalAcceleration"
              /\ arg' = acceleration
              /\ raised' = TRUE
              /\ UNCHANGED <<added, kineticTemperature, addCalls, onlyAdds, wallForce,
                             openLocation>>
         ELSE /\ Becomes(setGravitationalAcceleration(Model, acceleration))
              /\ Returned("setGravitationalAcceleration", acceleration)
    /\ UNCHANGED stepsTaken

\* setGravitationalAcceleration( acceleration ): throws for an acceleration
\* out of range.
SetGravitationalAcceleration ==
    /\ \E acceleration \in GravityInputs :
         IF acceleration > MAX_GRAVITATIONAL_ACCEL \/ acceleration < 0
         THEN Threw("setGravitationalAcceleration", acceleration)
         ELSE /\ Becomes(setGravitationalAcceleration(Model, acceleration))
              /\ Returned("setGravitationalAcceleration", acceleration)
    /\ UNCHANGED stepsTaken

\* injectMolecule()
InjectMolecule ==
    /\ Becomes(injectMolecule(Model))
    /\ Returned("injectMolecule", NoArg)
    /\ UNCHANGED stepsTaken

CommandSetTemperature == SetTemperatureAmong(CommandTemperatures)

CommandNext ==
    \/ SetGravitationalAcceleration
    \/ InjectMolecule
    \/ CommandSetTemperature
    \/ SetMoleculeType
    \/ SetThermostatType

CommandSpec == Init /\ [][CommandNext]_vars

\* ------------------------------------------------------------------------
\* Properties of the dataset
\* ------------------------------------------------------------------------

NumberOfMolecules == getNumberOfMolecules(moleculeDataSet)

\* The atoms of molecule i.
AtomBlock(ds, i) ==
    [j \in 0 .. (ds.atomsPerMolecule - 1) |-> ds.atomPositions[i * ds.atomsPerMolecule + j]]

\* Everything the dataset holds about molecule i.
MoleculeRecord(ds, i) ==
    << ds.moleculeCenterOfMassPositions[i], ds.moleculeVelocities[i],
       ds.moleculeForces[i], ds.nextMoleculeForces[i],
       ds.moleculeRotationAngles[i], ds.moleculeRotationRates[i],
       ds.moleculeTorques[i], ds.nextMoleculeTorques[i], AtomBlock(ds, i) >>

\* C1: addMolecule called when getNumberOfRemainingSlots() is 0 returns false
\* and leaves every field of the dataset as it was.
C1_AddAtCapacityRefused ==
    [][ (op' = "addMolecule" /\ FracIsZero(getNumberOfRemainingSlots(moleculeDataSet)))
          => (added' = FALSE /\ moleculeDataSet' = moleculeDataSet) ]_vars

\* An addMolecule has just been refused by a full dataset.
C1_Witness ==
    /\ op = "addMolecule"
    /\ added = FALSE
    /\ moleculeDataSet.numberOfAtoms > 0
    /\ FracIsZero(getNumberOfRemainingSlots(moleculeDataSet))

\* C2: numberOfAtoms never exceeds MAX_NUM_ATOMS, whether or not MAX_NUM_ATOMS
\* is a multiple of atomsPerMolecule.
C2_AtomsWithinMaximum == moleculeDataSet.numberOfAtoms <= MAX_NUM_ATOMS

\* C3: after N addMolecule calls on a fresh dataset, for N up to the capacity
\* MAX_NUM_ATOMS / atomsPerMolecule, numberOfAtoms is N * atomsPerMolecule and
\* getNumberOfRemainingSlots() is the capacity minus N.
C3_AddCounts ==
    LET apm == moleculeDataSet.atomsPerMolecule
    IN  (onlyAdds /\ addCalls * apm <= MAX_NUM_ATOMS)
          => /\ moleculeDataSet.numberOfAtoms = addCalls * apm
             /\ FracEq(getNumberOfRemainingSlots(moleculeDataSet),
                       Frac(MAX_NUM_ATOMS - addCalls * apm, apm))

\* A fresh dataset has been filled to its capacity by addMolecule calls alone.
C3_Witness ==
    /\ onlyAdds
    /\ op = "addMolecule"
    /\ addCalls > 1
    /\ addCalls * moleculeDataSet.atomsPerMolecule = MAX_NUM_ATOMS

\* C4: numberOfAtoms is a multiple of atomsPerMolecule and
\* 0 <= numberOfSafeMolecules <= numberOfMolecules.
C4_CountsConsistent ==
    /\ moleculeDataSet.numberOfAtoms % moleculeDataSet.atomsPerMolecule = 0
    /\ 0 <= moleculeDataSet.numberOfSafeMolecules
    /\ moleculeDataSet.numberOfSafeMolecules <= NumberOfMolecules

\* C5: numberOfSafeMolecules never decreases under addMolecule, removeMolecule,
\* updateMoleculeSafety and the sub-steps of step.
C5_SafeCountNeverDecreases ==
    [][ moleculeDataSet'.numberOfSafeMolecules >= moleculeDataSet.numberOfSafeMolecules ]_vars

\* A safe molecule has just been removed, after sub-steps have run.
C5_Witness ==
    /\ op = "removeMolecule"
    /\ arg >= 0
    /\ arg < NumberOfMolecules
    /\ moleculeDataSet.numberOfSafeMolecules > arg
    /\ moleculeDataSet.moleculeTorques[0] # Undef

\* C6: removeMolecule with an index below 0 or at or above the molecule count
\* changes nothing in the dataset.
C6_RemoveOutOfRangeIgnored ==
    [][ (op' = "removeMolecule" /\ (arg' < 0 \/ arg' >= NumberOfMolecules))
          => moleculeDataSet' = moleculeDataSet ]_vars

C8_EntriesDefined ==
    /\ \A i \in 0 .. (NumberOfMolecules - 1) :
         /\ moleculeDataSet.moleculeCenterOfMassPositions[i] # Undef
         /\ moleculeDataSet.moleculeVelocities[i] # Undef
         /\ moleculeDataSet.moleculeForces[i] # Undef
         /\ moleculeDataSet.nextMoleculeForces[i] # Undef
         /\ moleculeDataSet.moleculeRotationAngles[i] # Undef
         /\ moleculeDataSet.moleculeRotationRates[i] # Undef
         /\ moleculeDataSet.moleculeTorques[i] # Undef
         /\ moleculeDataSet.nextMoleculeTorques[i] # Undef
    /\ \A a \in 0 .. (moleculeDataSet.numberOfAtoms - 1) :
         moleculeDataSet.atomPositions[a] # Undef

\* C9: calculateTemperatureFromKineticEnergy returns 0 for a dataset with no
\* atoms.
C9_TemperatureOfEmptyIsZero ==
    (op = "calculateTemperatureFromKineticEnergy" /\ moleculeDataSet.numberOfAtoms = 0)
        => FracIsZero(kineticTemperature)

\* ------------------------------------------------------------------------
\* Properties of the model
\* ------------------------------------------------------------------------

\* C10: once isExploded is true, every operation other than reset and
\* setMoleculeType leaves it true.
C10_ExplodedStaysExploded ==
    [][(isExploded /\ op' \notin {"reset", "setMoleculeType"}) => isExploded']_vars

\* A step() that began with the container exploded has run: the container
\* has grown beyond its initial height and is still exploded.
C10_Witness ==
    /\ isExploded
    /\ op = "step"
    /\ particleContainerHeight > PARTICLE_CONTAINER_INITIAL_HEIGHT

\* C11: a step() that begins with the container exploded ends with the
\* calculator's pressure at 0, and while the container is not exploded the
\* pressure is not negative.
C11_PressureZeroOnceExploded ==
    /\ [](~isExploded => pressure >= 0)
    /\ [][(isExploded /\ stepsTaken' # stepsTaken) => pressure' = 0]_vars

\* A step() has run on an exploded container whose molecule is above the
\* floor, and has left the pressure at 0.
C11_Witness ==
    /\ isExploded
    /\ op = "step"
    /\ pressure = 0
    /\ moleculeDataSet.moleculeCenterOfMassPositions[0][2] >= 0
    /\ particleContainerHeight > PARTICLE_CONTAINER_INITIAL_HEIGHT

\* ------------------------------------------------------------------------
\* Properties of the wall force
\* ------------------------------------------------------------------------

\* A component of resultantForce is zero: not set, or set for an infinite
\* distance.
ForceIsZero(component) == component = NotSet \/ ~IsFinite(component[2])

\* calculateWallForce was the last to run, called with the container
\* exploded or not as given.
WallForceCalled(exploded) == op = "calculateWallForce" /\ wallForce.isExploded = exploded

\* C12: calculateWallForce for a position below the floor returns with
\* isExploded true, and updatePressure on an exploded container sets the
\* pressure to 0.
C12_FloorCrossingExplodes ==
    [][/\ (op' = "calculateWallForce" /\ wallForce'.position[2] < 0) => isExploded'
       /\ (isExploded /\ op' = "updatePressure") => pressure' = 0]_vars

\* A position below the floor has blown the container up, and the
\* updatePressure that followed, handed a positive wall force, has left the
\* pressure at 0.
C12_Witness ==
    /\ op = "updatePressure"
    /\ arg > 0
    /\ pressure = 0
    /\ isExploded
    /\ wallForce.position[2] < 0
    /\ ~wallForce.isExploded

\* C13: with the container exploded, calculateWallForce leaves the x
\* component at zero for a position left of the container and the y
\* component at zero for a position below it.
C13_NoForceOutsideLeftOrBottom ==
    WallForceCalled(TRUE) =>
        /\ wallForce.position[1] < 0 => ForceIsZero(wallForce.resultantForce[1])
        /\ wallForce.position[2] < 0 => ForceIsZero(wallForce.resultantForce[2])

\* C14: with the container exploded, calculateWallForce leaves the x
\* component at zero for a position right of the container.
C14_NoForceOutsideRight ==
    (/\ WallForceCalled(TRUE)
     /\ FracLess(wallForce.containerWidth, Frac(wallForce.position[1], 1)))
        => ForceIsZero(wallForce.resultantForce[1])

\* The position of the last call is at least WALL_DISTANCE_THRESHOLD from
\* every wall.
FarFromEveryWall ==
    LET x == Frac(wallForce.position[1], 1)
        y == Frac(wallForce.position[2], 1)
    IN  /\ ~FracLess(x, WALL_DISTANCE_THRESHOLD)
        /\ ~FracLess(FracMinus(wallForce.containerWidth, x), WALL_DISTANCE_THRESHOLD)
        /\ ~FracLess(y, WALL_DISTANCE_THRESHOLD)
        /\ ~FracLess(FracMinus(wallForce.containerHeight, y), WALL_DISTANCE_THRESHOLD)

\* C15: for a position at least WALL_DISTANCE_THRESHOLD from every wall,
\* calculateWallForce sets neither component of the force and adds nothing
\* to potentialEnergy, exploded or not.
C15_NoForceFarFromWalls ==
    (op = "calculateWallForce" /\ FarFromEveryWall) =>
        /\ wallForce.resultantForce = <<NotSet, NotSet>>
        /\ wallForce.potentialEnergy = <<>>

\* calculateWallForce has run on an exploded container for a position far
\* from every wall.
C15_Witness ==
    /\ WallForceCalled(TRUE)
    /\ FarFromEveryWall

\* ------------------------------------------------------------------------
\* Properties of the container height
\* ------------------------------------------------------------------------

\* What step() does to the height of an exploded container.
ExplodedGrowth(h) ==
    IF h < PARTICLE_CONTAINER_INITIAL_HEIGHT * 10
    THEN h + MAX_PER_TICK_CONTAINER_EXPANSION
    ELSE h

\* C16: while the container is exploded, a step raises particleContainerHeight
\* by MAX_PER_TICK_CONTAINER_EXPANSION whatever targetContainerHeight is, as
\* long as the height is below 10 times the initial height, and leaves it
\* unchanged from then on; the height never decreases.
C16_ExplodedContainerGrows ==
    [][(isExploded /\ stepsTaken' # stepsTaken) =>
           /\ particleContainerHeight' = ExplodedGrowth(particleContainerHeight)
           /\ particleContainerHeight' >= particleContainerHeight]_vars

\* C16 happens: the container is exploded, it has been stepped more often
\* than it takes to pass 10 times the initial height, which it has reached,
\* and its target is below the initial height.
C16_Witness ==
    /\ isExploded
    /\ op = "step"
    /\ particleContainerHeight >= PARTICLE_CONTAINER_INITIAL_HEIGHT * 10
    /\ particleContainerHeight < PARTICLE_CONTAINER_INITIAL_HEIGHT * 10
                                     + MAX_PER_TICK_CONTAINER_EXPANSION
    /\ stepsTaken > (PARTICLE_CONTAINER_INITIAL_HEIGHT * 9)
                        \div MAX_PER_TICK_CONTAINER_EXPANSION + 2
    /\ targetContainerHeight < PARTICLE_CONTAINER_INITIAL_HEIGHT

\* C17: while the container is not exploded, a step raises
\* particleContainerHeight by at most MAX_PER_TICK_CONTAINER_EXPANSION, lowers
\* it by at most MAX_PER_TICK_CONTAINER_SHRINKAGE, and moves it toward
\* targetContainerHeight without passing it.
C17_HeightChangeBounded ==
    [][(~isExploded /\ stepsTaken' # stepsTaken) =>
           /\ particleContainerHeight' - particleContainerHeight
                  <= MAX_PER_TICK_CONTAINER_EXPANSION
           /\ particleContainerHeight - particleContainerHeight'
                  <= MAX_PER_TICK_CONTAINER_SHRINKAGE
           /\ targetContainerHeight >= particleContainerHeight =>
                  /\ particleContainerHeight' >= particleContainerHeight
                  /\ particleContainerHeight' <= targetContainerHeight
           /\ targetContainerHeight <= particleContainerHeight =>
                  /\ particleContainerHeight' <= particleContainerHeight
                  /\ particleContainerHeight' >= targetContainerHeight]_vars

\* C18: while the container is not exploded, particleContainerHeight lies
\* between minAllowableContainerHeight and PARTICLE_CONTAINER_INITIAL_HEIGHT,
\* minAllowableContainerHeight being the value computed from the number of
\* molecules and the width of the container.
C18_HeightWithinLimits ==
    ~isExploded =>
        /\ minAllowableContainerHeight
               = calculateMinAllowableContainerHeight(Model).minAllowableContainerHeight
        /\ minAllowableContainerHeight <= particleContainerHeight
        /\ particleContainerHeight <= PARTICLE_CONTAINER_INITIAL_HEIGHT

\* C18 happens: steps have shrunk the container to the minimum, and a height
\* above the initial height has then been asked for.
C18_Witness ==
    /\ ~isExploded
    /\ op = "setTargetParticleContainerHeight"
    /\ arg > PARTICLE_CONTAINER_INITIAL_HEIGHT
    /\ stepsTaken > 0
    /\ particleContainerHeight = minAllowableContainerHeight
    /\ particleContainerHeight < PARTICLE_CONTAINER_INITIAL_HEIGHT

\* C19: setTargetParticleContainerHeight( h ) leaves targetContainerHeight at
\* h clamped into [minAllowableContainerHeight,
\* PARTICLE_CONTAINER_INITIAL_HEIGHT].
C19_TargetClamped ==
    op = "setTargetParticleContainerHeight" =>
        targetContainerHeight =
            IF arg < minAllowableContainerHeight THEN minAllowableContainerHeight
            ELSE IF arg > PARTICLE_CONTAINER_INITIAL_HEIGHT
                 THEN PARTICLE_CONTAINER_INITIAL_HEIGHT
                 ELSE arg

\* ------------------------------------------------------------------------
\* Properties of the thermostats
\* ------------------------------------------------------------------------

\* C20: a call of runThermostat, on its own or as the last one of a step,
\* runs at most one of the two thermostats, and none when the container is
\* exploded.
C20_AtMostOneThermostat ==
    op \in {"runThermostat", "step"} =>
        /\ Cardinality(thermostatRun) <= 1
        /\ isExploded => thermostatRun = {}

\* C20 happens: runThermostat was called with the adaptive thermostat, a set
\* point above LIQUID_TEMPERATURE and a temperature that is not changing, and
\* ran the isokinetic thermostat only.
C20_Witness ==
    /\ op = "runThermostat"
    /\ ~isExploded
    /\ thermostatType = ADAPTIVE_THERMOSTAT
    /\ heatingCoolingAmount = 0
    /\ temperatureSetPoint > LIQUID_TEMPERATURE
    /\ temperatureSetPoint + TEMPERATURE_CLOSENESS_RANGE >= temperature
    /\ temperatureSetPoint - TEMPERATURE_CLOSENESS_RANGE <= temperature
    /\ thermostatRun = {"isokinetic"}

\* runThermostat was called with the container intact while the height of
\* the container was changing and a molecule was near the top.
ThermostatsSuppressed ==
    /\ op = "runThermostat"
    /\ ~isExploded
    /\ heightChangeCounter # 0
    /\ particlesNearTop(Model)

\* The temperature of the dataset by its kinetic energy, in units of 1/10000.
KineticEnergyTemperature ==
    ToTemperature(calculateTemperatureFromKineticEnergy(moleculeDataSet))

\* C21 as stated: when runThermostat is called with the container intact, its
\* height changing and a molecule near the top, no thermostat runs, whatever
\* the thermostat type, and the set point becomes the temperature of the
\* dataset by its kinetic energy.
C21_SuppressedSetsKineticTemperature ==
    ThermostatsSuppressed =>
        /\ thermostatRun = {}
        /\ temperatureSetPoint = KineticEnergyTemperature

\* C21 as amended: when runThermostat is called with the container intact,
\* its height changing and a molecule near the top, no thermostat runs,
\* whatever the thermostat type, and the set point becomes the temperature of
\* the dataset by its kinetic energy clamped into
\* [MIN_TEMPERATURE, MAX_TEMPERATURE].
C21_SuppressedSetsClampedKineticTemperature ==
    ThermostatsSuppressed =>
        /\ thermostatRun = {}
        /\ temperatureSetPoint
               = clamp(KineticEnergyTemperature, MIN_TEMPERATURE, MAX_TEMPERATURE)

\* C21 happens: with the isokinetic thermostat chosen, the lid moving and a
\* moving molecule near the top, runThermostat ran no thermostat and took
\* the set point from the kinetic energy.
C21_Witness ==
    /\ ThermostatsSuppressed
    /\ thermostatType = ISOKINETIC_THERMOSTAT
    /\ particleContainerHeight # targetContainerHeight
    /\ KineticEnergyTemperature > MIN_TEMPERATURE
    /\ temperatureSetPoint = KineticEnergyTemperature
    /\ thermostatRun = {}

\* runThermostat was called with the container intact and the thermostats
\* not suppressed.
ThermostatsFree ==
    /\ op = "runThermostat"
    /\ ~isExploded
    /\ ~(heightChangeCounter # 0 /\ particlesNearTop(Model))

\* The set point is farther than TEMPERATURE_CLOSENESS_RANGE from the
\* measured temperature.
SetPointFar ==
    \/ temperatureSetPoint + TEMPERATURE_CLOSENESS_RANGE < temperature
    \/ temperatureSetPoint - TEMPERATURE_CLOSENESS_RANGE > temperature

\* C22 as stated: when runThermostat is called with the container intact and
\* the thermostats not suppressed, the isokinetic thermostat runs exactly
\* when the type is isokinetic, or adaptive with the set point far from the
\* measured temperature or above LIQUID_TEMPERATURE; the Andersen thermostat
\* runs exactly when the type is Andersen, or adaptive with the set point
\* within range and at or below LIQUID_TEMPERATURE; with no thermostat
\* chosen neither runs.
C22_ThermostatChoice ==
    ThermostatsFree =>
        /\ "isokinetic" \in thermostatRun <=>
               \/ thermostatType = ISOKINETIC_THERMOSTAT
               \/ /\ thermostatType = ADAPTIVE_THERMOSTAT
                  /\ (SetPointFar \/ temperatureSetPoint > LIQUID_TEMPERATURE)
        /\ "andersen" \in thermostatRun <=>
               \/ thermostatType = ANDERSEN_THERMOSTAT
               \/ /\ thermostatType = ADAPTIVE_THERMOSTAT
                  /\ ~SetPointFar
                  /\ temperatureSetPoint <= LIQUID_TEMPERATURE
        /\ thermostatType = NO_THERMOSTAT => thermostatRun = {}

\* The temperature counts as changing: heating or cooling is applied, or
\* the set point is far from the measured temperature.
TemperatureIsChanging == heatingCoolingAmount # 0 \/ SetPointFar

\* C22 as amended: the same, with the temperature counting as changing also
\* when the heating or cooling amount is not zero: in the adaptive mode the
\* isokinetic thermostat runs when the temperature is changing or the set
\* point is above LIQUID_TEMPERATURE, the Andersen thermostat otherwise.
C22_ThermostatChoiceWithHeating ==
    ThermostatsFree =>
        /\ "isokinetic" \in thermostatRun <=>
               \/ thermostatType = ISOKINETIC_THERMOSTAT
               \/ /\ thermostatType = ADAPTIVE_THERMOSTAT
                  /\ (TemperatureIsChanging \/ temperatureSetPoint > LIQUID_TEMPERATURE)
        /\ "andersen" \in thermostatRun <=>
               \/ thermostatType = ANDERSEN_THERMOSTAT
               \/ /\ thermostatType = ADAPTIVE_THERMOSTAT
                  /\ ~TemperatureIsChanging
                  /\ temperatureSetPoint <= LIQUID_TEMPERATURE
        /\ thermostatType = NO_THERMOSTAT => thermostatRun = {}

\* C22 happens: in the adaptive mode, with no heating, the set point near
\* the measured temperature and at or below LIQUID_TEMPERATURE,
\* runThermostat ran the Andersen thermostat.
C22_Witness ==
    /\ ThermostatsFree
    /\ thermostatType = ADAPTIVE_THERMOSTAT
    /\ ~TemperatureIsChanging
    /\ temperatureSetPoint <= LIQUID_TEMPERATURE
    /\ thermostatRun = {"andersen"}

\* ------------------------------------------------------------------------
\* Properties of heating and cooling
\* ------------------------------------------------------------------------

\* The step being taken adjusts the set point.
StepAdjustsTemperature ==
    /\ stepsTaken' # stepsTaken
    /\ heatingCoolingAmount # 0
    /\ tempAdjustTickCounter + 1 > TICKS_PER_TEMP_ADJUSTMENT

\* C23: an adjustment of the set point by step() leaves temperatureSetPoint
\* no lower than minModelTemperature and no higher than MAX_TEMPERATURE.
C23_AdjustmentWithinLimits ==
    [][StepAdjustsTemperature =>
           /\ temperatureSetPoint' <= MAX_TEMPERATURE
           /\ ~FracLess(Frac(temperatureSetPoint', 1),
                        minModelTemperature(currentMolecule))]_vars

\* C24 as stated: while heatingCoolingAmount is positive, a step does not
\* lower temperatureSetPoint.
C24_HeatingNeverLowersSetPoint ==
    [][(stepsTaken' # stepsTaken /\ heatingCoolingAmount > 0) =>
           temperatureSetPoint' >= temperatureSetPoint]_vars

\* The height of the container does not change during the step being taken:
\* the container is exploded, or it is at its target with the countdown
\* about to run out.
HeightAtRest ==
    \/ isExploded
    \/ (particleContainerHeight = targetContainerHeight /\ heightChangeCounter <= 1)

\* C24 as amended: while heatingCoolingAmount is positive and the height of
\* the container is not changing, a step does not lower temperatureSetPoint.
C24_HeatingNeverLowersSetPointAtRest ==
    [][(stepsTaken' # stepsTaken /\ heatingCoolingAmount > 0 /\ HeightAtRest) =>
           temperatureSetPoint' >= temperatureSetPoint]_vars

\* C24 happens: with heating applied and the container at rest, a step has
\* adjusted the set point and it has reached MAX_TEMPERATURE.
C24_Witness ==
    /\ op = "step"
    /\ heatingCoolingAmount > 0
    /\ particleContainerHeight = targetContainerHeight
    /\ heightChangeCounter = 0
    /\ tempAdjustTickCounter = 0
    /\ temperatureSetPoint = MAX_TEMPERATURE

\* ------------------------------------------------------------------------
\* Properties of the commands
\* ------------------------------------------------------------------------

\* C25: setTemperature( v ) returns and leaves temperatureSetPoint at v
\* clamped into [MIN_TEMPERATURE, MAX_TEMPERATURE].
C25_SetPointClamped ==
    op = "setTemperature" =>
        /\ ~raised
        /\ temperatureSetPoint =
               IF arg < MIN_TEMPERATURE THEN MIN_TEMPERATURE
               ELSE IF arg > MAX_TEMPERATURE THEN MAX_TEMPERATURE
                    ELSE arg

\* C25 happens: setTemperature was called with a temperature below
\* MIN_TEMPERATURE and left the set point at MIN_TEMPERATURE.
C25_Witness ==
    /\ op = "setTemperature"
    /\ arg < MIN_TEMPERATURE
    /\ temperatureSetPoint = MIN_TEMPERATURE

\* The fields of the model an operation that throws is to leave alone.
ModelState ==
    <<currentMolecule, moleculeDataSet, temperatureSetPoint, isExploded,
      particleContainerHeight, targetContainerHeight, thermostatType,
      heatingCoolingAmount, tempAdjustTickCounter, heightChangeCounter,
      minAllowableContainerHeight, gravitationalAcceleration, pressure,
      temperature, isoKineticTargetTemperature, andersenTargetTemperature>>

\* C26: setMoleculeType with an unsupported identifier and setThermostatType
\* with a type that is none of the four throw, and a call that throws leaves
\* the state of the model as it was.
C26_RejectedCallChangesNothing ==
    /\ []((op = "setMoleculeType" /\ arg \notin SupportedMolecules) => raised)
    /\ []((op = "setThermostatType" /\ arg \notin ThermostatTypes) => raised)
    /\ [][(raised' /\ op' \in {"setMoleculeType", "setThermostatType"}) =>
              UNCHANGED ModelState]_vars

\* C26 happens: setMoleculeType threw for an unsupported identifier in a
\* model that holds argon at a set point other than the initial one.
C26_Witness ==
    /\ raised
    /\ op = "setMoleculeType"
    /\ arg \notin SupportedMolecules
    /\ currentMolecule = ARGON
    /\ temperatureSetPoint # INITIAL_TEMPERATURE

\* C27: gravitationalAcceleration lies in [0, MAX_GRAVITATIONAL_ACCEL], and a
\* call of setGravitationalAcceleration with an acceleration out of that
\* range leaves it as it was.
C27_GravityWithinRange ==
    /\ [](gravitationalAcceleration >= 0
            /\ gravitationalAcceleration <= MAX_GRAVITATIONAL_ACCEL)
    /\ [][(/\ op' = "setGravitationalAcceleration"
           /\ (arg' < 0 \/ arg' > MAX_GRAVITATIONAL_ACCEL)) =>
              gravitationalAcceleration' = gravitationalAcceleration]_vars

\* C27 happens: setGravitationalAcceleration was called with an acceleration
\* above the range after the acceleration had been set to another value
\* than the initial one.
C27_Witness ==
    /\ op = "setGravitationalAcceleration"
    /\ arg > MAX_GRAVITATIONAL_ACCEL
    /\ raised
    /\ gravitationalAcceleration # INITIAL_GRAVITATIONAL_ACCEL

\* C28: injectMolecule() adds one molecule, which is not counted as safe,
\* when the dataset has room for one, and leaves the dataset as it was when
\* it has none.
C28_InjectAddsOneMolecule ==
    [][op' = "injectMolecule" =>
           IF FracIsZero(getNumberOfRemainingSlots(moleculeDataSet))
           THEN moleculeDataSet' = moleculeDataSet
           ELSE /\ getNumberOfMolecules(moleculeDataSet')
                       = getNumberOfMolecules(moleculeDataSet) + 1
                /\ moleculeDataSet'.numberOfSafeMolecules
                       = moleculeDataSet.numberOfSafeMolecules]_vars

\* The phase a set point implies: solid below the middle of
\* SOLID_TEMPERATURE and LIQUID_TEMPERATURE, liquid below the middle of
\* LIQUID_TEMPERATURE and GAS_TEMPERATURE, gas otherwise.
PhaseImpliedBy(setPoint) ==
    IF 2 * setPoint < SOLID_TEMPERATURE + LIQUID_TEMPERATURE THEN PHASE_SOLID
    ELSE IF 2 * setPoint < LIQUID_TEMPERATURE + GAS_TEMPERATURE THEN PHASE_LIQUID
         ELSE PHASE_GAS

\* Every molecule of the dataset ds is where the phase puts it, with the
\* velocity the phase gives it.
InPhase(ds, phase) ==
    \A i \in 0 .. (getNumberOfMolecules(ds) - 1) :
        /\ ds.moleculeCenterOfMassPositions[i] = PhasePlacement(phase, i).com
        /\ ds.moleculeVelocities[i] = PhasePlacement(phase, i).vel

\* C29: setMoleculeType with a supported identifier leaves new particles in
\* the phase implied by the set point held before the call.
C29_PhaseOfSetPointBeforeCall ==
    [][(op' = "setMoleculeType" /\ ~raised') =>
           /\ getNumberOfMolecules(moleculeDataSet') > 0
           /\ InPhase(moleculeDataSet', PhaseImpliedBy(temperatureSetPoint))]_vars

\* C29 happens: setMoleculeType has put the set point back to
\* INITIAL_TEMPERATURE, which implies a solid, and left the particles of
\* argon as a gas.
C29_Witness ==
    /\ op = "setMoleculeType"
    /\ ~raised
    /\ currentMolecule = ARGON
    /\ temperatureSetPoint = INITIAL_TEMPERATURE
    /\ PhaseImpliedBy(temperatureSetPoint) = PHASE_SOLID
    /\ getNumberOfMolecules(moleculeDataSet) > 0
    /\ InPhase(moleculeDataSet, PHASE_GAS)

\* C30: after reset() the molecule, the set point, the heating or cooling
\* amount, the exploded flag, the gravitational acceleration, the height of
\* the container and its target, the thermostat type and the two counters
\* are those of a newly constructed model.
C30_ResetRestoresConstructedState ==
    op = "reset" =>
        /\ currentMolecule = MultipleParticleModel.currentMolecule
        /\ temperatureSetPoint = MultipleParticleModel.temperatureSetPoint
        /\ heatingCoolingAmount = MultipleParticleModel.heatingCoolingAmount
        /\ isExploded = MultipleParticleModel.isExploded
        /\ gravitationalAcceleration = MultipleParticleModel.gravitationalAcceleration
        /\ particleContainerHeight = MultipleParticleModel.particleContainerHeight
        /\ targetContainerHeight = MultipleParticleModel.targetContainerHeight
        /\ thermostatType = MultipleParticleModel.thermostatType
        /\ tempAdjustTickCounter = MultipleParticleModel.tempAdjustTickCounter
        /\ heightChangeCounter = MultipleParticleModel.heightChangeCounter

\* ------------------------------------------------------------------------
\* Properties of updateMoleculeSafety
\* ------------------------------------------------------------------------

\* The dataset as the pass of updateMoleculeSafety taken in this step finds
\* it: updateForcesAndMotion computes the forces first.
PassInput ==
    IF op' = "updateForcesAndMotion" THEN ComputedDynamics(moleculeDataSet)
    ELSE moleculeDataSet

\* This step runs a pass of updateMoleculeSafety.
PassTaken == op' \in {"updateMoleculeSafety", "updateForcesAndMotion"}

\* What the pass exchanges for molecule i: centre of mass, velocity, force,
\* rotation angle, rotation rate and atoms.
SafetyRecord(ds, i) ==
    << ds.moleculeCenterOfMassPositions[i], ds.moleculeVelocities[i],
       ds.moleculeForces[i], ds.moleculeRotationAngles[i],
       ds.moleculeRotationRates[i], AtomBlock(ds, i) >>

\* Molecules i and j of ds are at least SAFE_INTER_MOLECULE_DISTANCE apart.
FarApart(ds, i, j) ==
    DistanceSquared(ds.moleculeCenterOfMassPositions[i],
                    ds.moleculeCenterOfMassPositions[j])
        >= SAFE_INTER_MOLECULE_DISTANCE * SAFE_INTER_MOLECULE_DISTANCE

\* C31: after a pass of updateMoleculeSafety every molecule promoted by it is
\* at least SAFE_INTER_MOLECULE_DISTANCE from every other safe molecule, those
\* promoted by the same pass included, and every molecule left unsafe is
\* closer than that to some safe molecule.
C31_PromotedWhenFarFromSafeOnes ==
    [][PassTaken =>
           LET ds == moleculeDataSet'
               n == getNumberOfMolecules(ds)
               old == PassInput.numberOfSafeMolecules
               new == ds.numberOfSafeMolecules
           IN  /\ \A i \in old .. (new - 1) :
                      \A j \in 0 .. (new - 1) : j # i => FarApart(ds, i, j)
               /\ \A k \in new .. (n - 1) :
                      \E j \in 0 .. (new - 1) : ~FarApart(ds, k, j)]_vars

\* C31 happens: a pass has left two molecules safe that are exactly
\* SAFE_INTER_MOLECULE_DISTANCE apart, and a third unsafe that is far enough
\* from the first and too close to the second.
C31_Witness ==
    /\ op \in {"updateMoleculeSafety", "updateForcesAndMotion"}
    /\ getNumberOfMolecules(moleculeDataSet) = 3
    /\ moleculeDataSet.numberOfSafeMolecules = 2
    /\ DistanceSquared(moleculeDataSet.moleculeCenterOfMassPositions[0],
                       moleculeDataSet.moleculeCenterOfMassPositions[1])
           = SAFE_INTER_MOLECULE_DISTANCE * SAFE_INTER_MOLECULE_DISTANCE
    /\ FarApart(moleculeDataSet, 2, 0)
    /\ ~FarApart(moleculeDataSet, 2, 1)

\* C32: a pass of updateMoleculeSafety leaves numberOfAtoms and the records
\* below the old numberOfSafeMolecules as they were, and the records after
\* it are those before it in another order, the promoted ones right after
\* the old safe molecules in the order in which they stood.
C32_PassOnlyPermutes ==
    [][PassTaken =>
           LET before == PassInput
               ds == moleculeDataSet'
               n == getNumberOfMolecules(before)
               old == before.numberOfSafeMolecules
               new == ds.numberOfSafeMolecules
           IN  /\ ds.numberOfAtoms = before.numberOfAtoms
               /\ \A i \in 0 .. (old - 1) : SafetyRecord(ds, i) = SafetyRecord(before, i)
               /\ \E from \in [0 .. (n - 1) -> 0 .. (n - 1)] :
                      /\ \A a, b \in 0 .. (n - 1) : a # b => from[a] # from[b]
                      /\ \A a \in 0 .. (n - 1) :
                             SafetyRecord(ds, a) = SafetyRecord(before, from[a])
                      /\ \A a, b \in old .. (new - 1) : a < b => from[a] < from[b]]_vars

\* C32 happens: updateForcesAndMotion has computed a next force for every
\* molecule and its pass has then moved another molecule to index 1, among
\* the safe ones.
C32_Witness ==
    /\ op = "updateForcesAndMotion"
    /\ getNumberOfMolecules(moleculeDataSet) = 3
    /\ moleculeDataSet.numberOfSafeMolecules = 2
    /\ moleculeDataSet.atomsPerMolecule = 2
    /\ moleculeDataSet.nextMoleculeForces[1]
           # <<moleculeDataSet.moleculeCenterOfMassPositions[1][1] + 2,
               moleculeDataSet.moleculeCenterOfMassPositions[1][2]>>

C34_PressureBelowExplosionUnlessExploded ==
    [][(op' = "updatePressure" /\ ~isExploded') => pressure' <= EXPLOSION_PRESSURE]_vars

\* C34 happens: updatePressure, handed a wall force, has raised the pressure
\* to more than half of EXPLOSION_PRESSURE and has left the container whole.
C34_Witness ==
    /\ op = "updatePressure"
    /\ arg > 0
    /\ ~isExploded
    /\ 2 * pressure > EXPLOSION_PRESSURE
    /\ pressure <= EXPLOSION_PRESSURE

\* How many steps the height h needs to reach the target t at the most the
\* container may change per step.
StepsToTarget(h, t) ==
    IF t >= h
    THEN (t - h + MAX_PER_TICK_CONTAINER_EXPANSION - 1) \div MAX_PER_TICK_CONTAINER_EXPANSION
    ELSE (h - t + MAX_PER_TICK_CONTAINER_SHRINKAGE - 1) \div MAX_PER_TICK_CONTAINER_SHRINKAGE

\* C35: while the container is not exploded and targetContainerHeight lies
\* between minAllowableContainerHeight and PARTICLE_CONTAINER_INITIAL_HEIGHT,
\* each step() brings particleContainerHeight one step nearer to the target,
\* counted in steps of the greatest change allowed, and leaves it at the
\* target once it is there: the height reaches the target after that many
\* steps and stays.
C35_HeightReachesTarget ==
    [][(/\ stepsTaken' # stepsTaken
        /\ ~isExploded
        /\ targetContainerHeight >= minAllowableContainerHeight
        /\ targetContainerHeight <= PARTICLE_CONTAINER_INITIAL_HEIGHT) =>
           /\ targetContainerHeight' = targetContainerHeight
           /\ StepsToTarget(particleContainerHeight', targetContainerHeight)
                  = IF particleContainerHeight = targetContainerHeight THEN 0
                    ELSE StepsToTarget(particleContainerHeight, targetContainerHeight) - 1]_vars

\* C35 happens: steps have shrunk the container from its initial height to
\* a target at the minimum, and one more step has left it there.
C35_Witness ==
    /\ op = "step"
    /\ ~isExploded
    /\ particleContainerHeight = targetContainerHeight
    /\ targetContainerHeight = minAllowableContainerHeight
    /\ heightChangeCounter = CONTAINER_SIZE_CHANGE_RESET_COUNT - 1
    /\ stepsTaken > StepsToTarget(PARTICLE_CONTAINER_INITIAL_HEIGHT, targetContainerHeight)

\* The step() just taken has adjusted the set point.
Adjusted == op = "step" /\ ticksSinceAdjustment = 0

\* C36 as stated: when step() adjusts the set point, at least
\* TICKS_PER_TEMP_ADJUSTMENT steps have gone by since the adjustment before
\* it, if there is one, and since the heating or cooling began, if this is
\* its first adjustment.
C36_FixedCadence ==
    [][(stepsTaken' # stepsTaken /\ ticksSinceAdjustment' = 0) =>
           /\ ticksSinceAdjustment # NoTicks =>
                  ticksSinceAdjustment + 1 >= TICKS_PER_TEMP_ADJUSTMENT
           /\ ticksSinceActive # NoTicks =>
                  ticksSinceActive + 1 >= TICKS_PER_TEMP_ADJUSTMENT]_vars

\* C36 as amended: when step() adjusts the set point, at least
\* TICKS_PER_TEMP_ADJUSTMENT steps have gone by since the adjustment before
\* it, if there is one, and since the model was made.
C36_CadenceBetweenAdjustments ==
    [][(stepsTaken' # stepsTaken /\ ticksSinceAdjustment' = 0) =>
           /\ ticksSinceAdjustment # NoTicks =>
                  ticksSinceAdjustment + 1 >= TICKS_PER_TEMP_ADJUSTMENT
           /\ stepsTaken + 1 >= TICKS_PER_TEMP_ADJUSTMENT]_vars

\* C36 happens: with heating asked for from the start, step() has adjusted
\* the set point a second time, as soon as it could.
C36_Witness ==
    /\ Adjusted
    /\ heatingCoolingAmount > 0
    /\ temperatureSetPoint = INITIAL_TEMPERATURE + 2 * MAX_TEMPERATURE_CHANGE_PER_ADJUSTMENT
    /\ stepsTaken = 2 * (TICKS_PER_TEMP_ADJUSTMENT + 1)

\* C37: with heatingCoolingAmount at most MAX_TEMPERATURE_CHANGE_PER_ADJUSTMENT
\* either way, temperatureSetPoint between minModelTemperature and
\* MAX_TEMPERATURE and the height of the container at rest, a step() that
\* adjusts the set point changes it by at most
\* MAX_TEMPERATURE_CHANGE_PER_ADJUSTMENT.
C37_AdjustmentBounded ==
    [][(/\ StepAdjustsTemperature
        /\ HeightAtRest
        /\ heatingCoolingAmount <= MAX_TEMPERATURE_CHANGE_PER_ADJUSTMENT
        /\ heatingCoolingAmount >= 0 - MAX_TEMPERATURE_CHANGE_PER_ADJUSTMENT
        /\ temperatureSetPoint <= MAX_TEMPERATURE
        /\ ~FracLess(Frac(temperatureSetPoint, 1), minModelTemperature(currentMolecule))) =>
           /\ temperatureSetPoint' - temperatureSetPoint
                  <= MAX_TEMPERATURE_CHANGE_PER_ADJUSTMENT
           /\ temperatureSetPoint - temperatureSetPoint'
                  <= MAX_TEMPERATURE_CHANGE_PER_ADJUSTMENT]_vars

\* C37 happens: full cooling has been slowed down from the highest set point
\* at which it is, and the step() has lowered the set point by a twentieth.
C37_Witness ==
    /\ op = "step"
    /\ tempAdjustTickCounter = 0
    /\ heatingCoolingAmount = 0 - MAX_TEMPERATURE_CHANGE_PER_ADJUSTMENT
    /\ 100 * temperatureSetPoint
           = 95 * ((9 * SOLID_TEMPERATURE) \div 10 + MAX_TEMPERATURE_CHANGE_PER_ADJUSTMENT)

\* ------------------------------------------------------------------------
\* Properties of findOpenMoleculeLocation
\* ------------------------------------------------------------------------

\* The positions of the grid for a container of the given size and the
\* dataset of the model.
GridPositions(width, height) ==
    LET d == minInitialInterParticleDistance(moleculeDataSet)
    IN  { << MIN_INITIAL_PARTICLE_TO_WALL_DISTANCE + i * d,
             MIN_INITIAL_PARTICLE_TO_WALL_DISTANCE + j * d >> :
            i \in { a \in 0 .. width : a * d < width - 2 * MIN_INITIAL_PARTICLE_TO_WALL_DISTANCE },
            j \in { b \in 0 .. height : b * d < height - 2 * MIN_INITIAL_PARTICLE_TO_WALL_DISTANCE } }

\* Every molecule of the dataset is at least the minimum distance from pos.
FarFromEveryMolecule(pos) ==
    \A k \in 0 .. (getNumberOfMolecules(moleculeDataSet) - 1) :
        DistanceSquared(moleculeDataSet.moleculeCenterOfMassPositions[k], pos)
            >= minInitialInterParticleDistance(moleculeDataSet)
                   * minInitialInterParticleDistance(moleculeDataSet)

C39_ThermostatTargetsFollowSetPoint ==
    /\ [](op = "setTemperature" =>
              /\ isoKineticTargetTemperature = temperatureSetPoint
              /\ andersenTargetTemperature = temperatureSetPoint)
    /\ [][(StepAdjustsTemperature /\ HeightAtRest) =>
              /\ isoKineticTargetTemperature' = temperatureSetPoint'
              /\ andersenTargetTemperature' = temperatureSetPoint']_vars

\* The countdown after a step that lets it run: one less, and 0 once it is 0.
CountedDown == IF heightChangeCounter > 0 THEN heightChangeCounter - 1 ELSE 0

\* C40 as stated: heightChangeCounter lies between 0 and
\* CONTAINER_SIZE_CHANGE_RESET_COUNT; a step() on a container not exploded
\* whose height differs from the target sets it to
\* CONTAINER_SIZE_CHANGE_RESET_COUNT, and any other step() lowers it by one
\* until it is 0.
C40_CountdownRunsOnEveryOtherStep ==
    /\ [](heightChangeCounter >= 0 /\ heightChangeCounter <= CONTAINER_SIZE_CHANGE_RESET_COUNT)
    /\ [][stepsTaken' # stepsTaken =>
              heightChangeCounter' =
                  IF ~isExploded /\ particleContainerHeight # targetContainerHeight
                  THEN CONTAINER_SIZE_CHANGE_RESET_COUNT
                  ELSE CountedDown]_vars

\* C40 as amended: heightChangeCounter lies between 0 and
\* CONTAINER_SIZE_CHANGE_RESET_COUNT; a step() on a container not exploded
\* sets it to CONTAINER_SIZE_CHANGE_RESET_COUNT when the height differs from
\* the target and lowers it by one until it is 0 when the height is at the
\* target; a step() on an exploded container leaves it as it is.
C40_CountdownRunsWhileNotExploded ==
    /\ [](heightChangeCounter >= 0 /\ heightChangeCounter <= CONTAINER_SIZE_CHANGE_RESET_COUNT)
    /\ [][stepsTaken' # stepsTaken =>
              heightChangeCounter' =
                  IF isExploded THEN heightChangeCounter
                  ELSE IF particleContainerHeight # targetContainerHeight
                       THEN CONTAINER_SIZE_CHANGE_RESET_COUNT
                       ELSE CountedDown]_vars

\* C40 happens: a step() has run on an exploded container, which has grown
\* beyond its initial height, and the countdown is still where the last
\* change of height put it.
C40_Witness ==
    /\ op = "step"
    /\ isExploded
    /\ particleContainerHeight > PARTICLE_CONTAINER_INITIAL_HEIGHT
    /\ heightChangeCounter = CONTAINER_SIZE_CHANGE_RESET_COUNT

====
